---- MODULE Spec2Model ----
(***************************************************************************)
(* A model of the erago interpreter (package eruntime) and of the part of  *)
(* the ERB parser that builds the function table.  The interpreter is a    *)
(* tree walker written as mutually recursive Go functions; here the Go     *)
(* call stack is the explicit sequence ctl, and every action is one        *)
(* function entry, one statement, or one function's handling of the result *)
(* a callee handed back.                                                   *)
(*                                                                         *)
(* Text that the program converts (input text, printed numbers) is a       *)
(* sequence of one-character strings; a word that no conversion looks into *)
(* is one element of such a sequence.  Identifiers (function names,        *)
(* labels, command names) are plain strings.                               *)
(***************************************************************************)
EXTENDS Integers, Sequences, FiniteSets, TLC

VARIABLES
    files,          \* the function definitions of the ERB files given to Compile
    program,        \* vm.program: the compiled Program
    hostInputs,     \* values the host is about to hand to EnqueueInput
    phase,          \* "idle" | "exec" | "ret" | "done": where the Go code stands
    current,        \* Run's local variable current
    stack,          \* vm.stack: the frames
    ctl,            \* the Go call stack of runThunk/callFunction/... activations
    res,            \* the (execResult, error) pair being returned
    execThunk,      \* vm.execThunk
    execPC,         \* vm.execPC
    globals,        \* vm.globals
    outputs,        \* vm.outputs
    hookOutputs,    \* the outputs vm.outputHook has been called with, in order
    input,          \* vm.input
    inputProvider,  \* vm.inputProvider # nil
    runResult,      \* what Run returned: [outputs, err]
    hist,           \* history of the run, read only by the properties
    vmRuns,         \* terminal front-end: the runVM goroutines and their channels
    cmds,           \* terminal front-end: the tea.Cmd functions in flight
    model,          \* terminal front-end: the bubbletea model
    gArrays,        \* vm.gArrays: the global arrays
    gRefs,          \* vm.gRefs: the targets bound to the global REF names
    characters,     \* vm.characters: the ids of the roster, in order
    saved,          \* the save file of SAVEGLOBAL, empty while there is none
    storeHist,      \* history of the variable store, read only by the properties
    datFiles,       \* the save directory: the files of SAVEVAR and SAVECHARA
    execSteps,      \* vm.execSteps
    form,           \* expandFormTemplate: the template, the activations, the result
    array,          \* an *ArrayVar a script reads and writes
    arrayHist       \* history of the array, read only by the properties

vars == <<files, program, hostInputs, phase, current, stack, ctl, res,
          execThunk, execPC, globals, outputs, hookOutputs, input, inputProvider,
          runResult, hist, vmRuns, cmds, model, gArrays, gRefs, characters, saved,
          storeHist, datFiles, execSteps, form, array, arrayHist>>

\* The variable store beyond vm.globals, which the statements modelled for
\* control flow do not touch
datastore == <<gArrays, gRefs, characters, saved, storeHist, datFiles>>

\* The state of the terminal front-end, of the template expansion and of the
\* array with dimensions, which no statement of the scripts modelled for
\* control flow touches
frontend == <<vmRuns, cmds, model, form, array, arrayHist>>

\* No template is being expanded
NoForm == [phase |-> "idle", tmpl |-> <<>>, stack |-> <<>>, result |-> <<>>]

\* The array while no script uses it: newArrayVar(false, false, nil)
NoArray == [IsString |-> FALSE, IsDynamic |-> FALSE, Dims |-> <<1>>, Data |-> [l \in {} |-> 0]]

\* Nothing has been done to the array
NoArrayHist == [ops |-> 0, op |-> "none", index |-> <<>>, err |-> FALSE, before |-> NoArray]

\* newModel(cfg): nothing running, nothing shown
newModel ==
    [cfg |-> <<>>, running |-> FALSE, events |-> 0, pending |-> <<>>, seq |-> 0,
     stream |-> <<>>]

----------------------------------------------------------------------------
(* Bounds of the model *)

MaxQueue == 2          \* longest sequence of values handed to EnqueueInput
MaxHandlers == 2       \* most declarations of one event function in a file

----------------------------------------------------------------------------
(* Text and numbers *)

Digits == <<"0", "1", "2", "3", "4", "5", "6", "7", "8", "9">>

IsDigit(c) == \E i \in 1..10 : Digits[i] = c

DigitVal(c) == (CHOOSE i \in 1..10 : Digits[i] = c) - 1

RECURSIVE DigitsToInt(_)
DigitsToInt(s) ==
    IF s = <<>> THEN 0
    ELSE 10 * DigitsToInt(SubSeq(s, 1, Len(s) - 1)) + DigitVal(s[Len(s)])

RECURSIVE TrimLeft(_)
TrimLeft(s) == IF s # <<>> /\ Head(s) = " " THEN TrimLeft(Tail(s)) ELSE s

RECURSIVE TrimRight(_)
TrimRight(s) ==
    IF s # <<>> /\ s[Len(s)] = " " THEN TrimRight(SubSeq(s, 1, Len(s) - 1)) ELSE s

\* strings.TrimSpace
TrimSpace(s) == TrimRight(TrimLeft(s))

\* strconv.ParseInt(s, 10, 64): an optional sign and at least one digit
ParseInt(s) ==
    LET signed == s # <<>> /\ Head(s) \in {"+", "-"}
        body   == IF signed THEN Tail(s) ELSE s
    IN  IF body = <<>> \/ \E i \in 1..Len(body) : ~IsDigit(body[i])
        THEN [ok |-> FALSE, n |-> 0]
        ELSE [ok |-> TRUE,
              n  |-> IF signed /\ Head(s) = "-" THEN 0 - DigitsToInt(body)
                     ELSE DigitsToInt(body)]

RECURSIVE NatToDigits(_)
NatToDigits(n) ==
    IF n < 10 THEN <<Digits[n + 1]>>
    ELSE Append(NatToDigits(n \div 10), Digits[(n % 10) + 1])

\* strconv.FormatInt(n, 10)
FormatInt(n) == IF n < 0 THEN <<"-">> \o NatToDigits(0 - n) ELSE NatToDigits(n)

\* parseIntInput: trims, and parses a decimal integer; (0, false) otherwise
parseIntInput(raw) ==
    LET t == TrimSpace(raw)
    IN  IF t = <<>> THEN [ok |-> FALSE, n |-> 0] ELSE ParseInt(t)

----------------------------------------------------------------------------
(* Values *)

IntV(n) == [kind |-> "int", i |-> n, s |-> <<>>]

StrV(t) == [kind |-> "str", i |-> 0, s |-> t]

Int64(v) == IF v.kind = "int" THEN v.i
            ELSE IF ParseInt(v.s).ok THEN ParseInt(v.s).n ELSE 0

String(v) == IF v.kind = "str" THEN v.s ELSE FormatInt(v.i)

Truthy(v) == IF v.kind = "str" THEN v.s # <<>> ELSE v.i # 0

----------------------------------------------------------------------------
(* The syntax tree *)

EmptyMap == [l \in {} |-> 0]

MapPut(m, k, v) == [x \in (DOMAIN m) \cup {k} |-> IF x = k THEN v ELSE m[x]]

Thunk(stmts, labels) == [Statements |-> stmts, LabelMap |-> labels]

EmptyThunk == Thunk(<<>>, EmptyMap)

Lit(v) == [e |-> "lit", v |-> v, name |-> ""]

VarRef(name) == [e |-> "var", v |-> IntV(0), name |-> name]

CallExpr(name) == [e |-> "call", v |-> IntV(0), name |-> name]

\* One statement: op is the Go type of the node, Name the command, function,
\* label, keyword or target it names, Arg the raw argument of a command,
\* Exprs its parsed expressions and Body its child thunks.
Stmt(op, name, arg, exprs, body) ==
    [op |-> op, Name |-> name, Arg |-> arg, Exprs |-> exprs, Body |-> body]

PrintStmt(text)      == Stmt("PrintStmt", "PRINTL", "", <<Lit(StrV(text))>>, <<>>)
AssignStmt(t, e)     == Stmt("AssignStmt", t, "", <<e>>, <<>>)
\* t = l op r: an AssignStmt whose expression is the BinaryExpr of op, l and r
BinaryAssign(t, op, l, r) == Stmt("AssignStmt", t, op, <<l, r>>, <<>>)
IfStmt(c, th, el)    == Stmt("IfStmt", "", "", <<c>>, <<th, el>>)
RepeatStmt(c, th)    == Stmt("RepeatStmt", "", "", <<c>>, <<th>>)
ForStmt(t, i, l, s, th) == Stmt("ForStmt", t, "", <<i, l, s>>, <<th>>)
GotoStmt(label)      == Stmt("GotoStmt", label, "", <<>>, <<>>)
CallStmt(name)       == Stmt("CallStmt", name, "", <<>>, <<>>)
ReturnStmt(es)       == Stmt("ReturnStmt", "", "", es, <<>>)
BeginStmt(kw)        == Stmt("BeginStmt", kw, "", <<>>, <<>>)
QuitStmt             == Stmt("QuitStmt", "", "", <<>>, <<>>)
BreakStmt            == Stmt("BreakStmt", "", "", <<>>, <<>>)
CommandStmt(n, a, es) == Stmt("CommandStmt", n, a, es, <<>>)

\* childThunks
childThunks(stmt) ==
    IF stmt.op \in {"IfStmt", "RepeatStmt", "ForStmt"} THEN stmt.Body ELSE <<>>

\* The labels of a thunk and of the thunks nested in it
RECURSIVE LabelsOf(_)
LabelsOf(thunk) ==
    (DOMAIN thunk.LabelMap)
    \cup UNION { LabelsOf(childThunks(thunk.Statements[i])[j]) :
                   <<i, j>> \in { p \in (1..Len(thunk.Statements)) \X (1..2) :
                                    p[2] <= Len(childThunks(thunk.Statements[p[1]])) } }

\* A line "$LABEL" of a function body, as parseThunk sees it
Label(l) == Stmt("label", l, "", <<>>, <<>>)

RECURSIVE parseThunkFrom(_, _, _, _)
parseThunkFrom(lines, idx, stmts, labels) ==
    IF idx > Len(lines) THEN Thunk(stmts, labels)
    ELSE IF lines[idx].op = "label"
    THEN parseThunkFrom(lines, idx + 1, stmts, MapPut(labels, lines[idx].Name, Len(stmts)))
    ELSE parseThunkFrom(lines, idx + 1, Append(stmts, lines[idx]), labels)

\* parseThunk: the statements of the lines, and each label's statement index
parseThunk(lines) == parseThunkFrom(lines, 1, <<>>, EmptyMap)

----------------------------------------------------------------------------
(* Results, frames and variables of the VM *)

execResult(kind) ==
    [kind |-> kind, index |-> 0, label |-> "", keyword |-> "", values |-> <<>>, err |-> ""]

resultNone == execResult("resultNone")

resultGoto(label) == [execResult("resultGoto") EXCEPT !.label = label]

resultJumpIndex(index) == [execResult("resultJumpIndex") EXCEPT !.index = index]

resultBegin(keyword) == [execResult("resultBegin") EXCEPT !.keyword = keyword]

resultReturn(values) == [execResult("resultReturn") EXCEPT !.values = values]

\* (execResult{}, err) with err # nil
Errorf(msg) == [resultNone EXCEPT !.err = msg]

frame(fn) == [fn |-> fn, lArrays |-> EmptyMap]

currentFrame == stack[Len(stack)]

Top == ctl[Len(ctl)]

Caller == SubSeq(ctl, 1, Len(ctl) - 1)

getVarIn(g, name) == IF name \in DOMAIN g THEN g[name] ELSE IntV(0)

getVar(name) == getVarIn(globals, name)

setVar(g, name, v) == MapPut(g, name, v)

ResultNames == <<"RESULT0", "RESULT1">>

RECURSIVE storeResultFrom(_, _, _)
storeResultFrom(g, values, i) ==
    IF i > Len(values) THEN g
    ELSE storeResultFrom(MapPut(g, ResultNames[i], values[i]), values, i + 1)

\* storeResult that keeps the last returned value in RESULT instead of the first
storeResultLast(g, values) ==
    IF values = <<>> THEN MapPut(g, "RESULT", IntV(0))
    ELSE storeResultFrom(MapPut(g, "RESULT", values[Len(values)]), values, 1)

\* storeResult
storeResult(g, values) ==
    IF values = <<>> THEN MapPut(g, "RESULT", IntV(0))
    ELSE storeResultFrom(MapPut(g, "RESULT", values[1]), values, 1)

----------------------------------------------------------------------------
(* The variable store: arrays and REF names *)

MaxOps == 3            \* most operations on the store in one run
MaxCharas == 2         \* most characters in the roster

\* ast.VarRef as a target: a name and its index, here at most one literal
Ref(name, index) == [Name |-> name, Index |-> index]

\* program.VarDecls: the ERH file declares #DIM REF R, #DIM REF R2, #DIMS S
RefDecl == {"R", "R2"}

StringVars == {"S"}

isStringArrayBase(name) == name \in StringVars

isRefDeclared(name) == name \in RefDecl

isResultLikeName(name) == name \in {"RESULT", "RESULTS"}

\* newArrayVar(isString, true, dims): a dynamic array with no element set
newArrayVar(isString) == [IsString |-> isString, Data |-> EmptyMap]

defaultValue(a) == IF a.IsString THEN StrV(<<>>) ELSE IntV(0)

\* ArrayVar.Get
ArrayGet(a, i) == IF i \in DOMAIN a.Data THEN a.Data[i] ELSE defaultValue(a)

\* ArrayVar.Set: the value is converted to the kind of the array
ArraySet(a, i, v) ==
    [a EXCEPT !.Data = MapPut(@, i, IF a.IsString THEN StrV(String(v))
                                    ELSE IntV(Int64(v)))]

\* The store the statements read and write: the fields of the VM
Store == [globals |-> globals, gArrays |-> gArrays, stack |-> stack, gRefs |-> gRefs]

\* currentFrame().lArrays
lArraysOf(d) == IF d.stack = <<>> THEN EmptyMap ELSE d.stack[Len(d.stack)].lArrays

\* getVar(name) for a name that has no binding
getVarOf(d, name) ==
    IF isResultLikeName(name) /\ name \in DOMAIN d.globals THEN d.globals[name]
    ELSE IF name \in DOMAIN lArraysOf(d) THEN ArrayGet(lArraysOf(d)[name], 0)
    ELSE IF name \in DOMAIN d.gArrays THEN ArrayGet(d.gArrays[name], 0)
    ELSE IF name \in DOMAIN d.globals THEN d.globals[name]
    ELSE IntV(0)

\* A call that never returns: the recursion through the bindings has come
\* back to a name it is already resolving
Diverges(d) == [ok |-> FALSE, v |-> IntV(0), d |-> d]

\* getVarRef(ref), with the names the recursion is resolving: whether it
\* returns, the value, and the store it leaves (an indexed read of a name
\* that has no array creates the array)
RECURSIVE getVarRefFrom(_, _, _)
getVarRefFrom(d, ref, seen) ==
    IF ref.Index = <<>>
    THEN IF ref.Name \in DOMAIN d.gRefs
         THEN IF ref.Name \in seen THEN Diverges(d)
              ELSE getVarRefFrom(d, d.gRefs[ref.Name], seen \cup {ref.Name})
         ELSE [ok |-> TRUE, v |-> getVarOf(d, ref.Name), d |-> d]
    ELSE IF ref.Name \in DOMAIN lArraysOf(d)
    THEN [ok |-> TRUE, v |-> ArrayGet(lArraysOf(d)[ref.Name], ref.Index[1]), d |-> d]
    ELSE IF ref.Name \in DOMAIN d.gArrays
    THEN [ok |-> TRUE, v |-> ArrayGet(d.gArrays[ref.Name], ref.Index[1]), d |-> d]
    ELSE LET arr == newArrayVar(isStringArrayBase(ref.Name))
         IN  [ok |-> TRUE, v |-> ArrayGet(arr, ref.Index[1]),
              d |-> [d EXCEPT !.gArrays = MapPut(@, ref.Name, arr)]]

getVarRef(d, ref) == getVarRefFrom(d, ref, {})

\* setVar(name, v) for a name that has no binding
setVarOf(d, name, v) ==
    IF isResultLikeName(name) THEN [d EXCEPT !.globals = MapPut(@, name, v)]
    ELSE IF name \in DOMAIN lArraysOf(d)
    THEN [d EXCEPT !.stack[Len(d.stack)].lArrays[name] = ArraySet(@, 0, v)]
    ELSE IF name \in DOMAIN d.gArrays
    THEN [d EXCEPT !.gArrays[name] = ArraySet(@, 0, v)]
    ELSE [d EXCEPT !.globals = MapPut(@, name, v)]

\* setVarRef(ref, v), with the names the recursion is resolving: whether it
\* returns, and the store it leaves
RECURSIVE setVarRefFrom(_, _, _, _)
setVarRefFrom(d, ref, v, seen) ==
    IF ref.Index = <<>>
    THEN IF ref.Name \in DOMAIN d.gRefs
         THEN IF ref.Name \in seen THEN [ok |-> FALSE, d |-> d]
              ELSE setVarRefFrom(d, d.gRefs[ref.Name], v, seen \cup {ref.Name})
         ELSE [ok |-> TRUE, d |-> setVarOf(d, ref.Name, v)]
    ELSE IF ref.Name \in DOMAIN lArraysOf(d)
    THEN [ok |-> TRUE,
          d |-> [d EXCEPT !.stack[Len(d.stack)].lArrays[ref.Name] =
                            ArraySet(@, ref.Index[1], v)]]
    ELSE LET arr == IF ref.Name \in DOMAIN d.gArrays THEN d.gArrays[ref.Name]
                    ELSE newArrayVar(isStringArrayBase(ref.Name))
         IN  [ok |-> TRUE,
              d |-> [d EXCEPT !.gArrays = MapPut(@, ref.Name,
                                                 ArraySet(arr, ref.Index[1], v))]]

\* setVarRef that stores under the name it is given, bound or not
setVarRefUnbound(d, ref, v) ==
    IF ref.Index = <<>> THEN [ok |-> TRUE, d |-> setVarOf(d, ref.Name, v)]
    ELSE setVarRefFrom(d, ref, v, {})

setVarRef(d, ref, v) == setVarRefFrom(d, ref, v, {})

\* setRefBinding(name, target) for a name declared in the ERH file
setRefBinding(d, name, target) == [d EXCEPT !.gRefs = MapPut(@, name, target)]

\* initDefines: the declared arrays; the REF declarations are RefDecl
initDefines == [globals |-> MapPut(EmptyMap, "RESULT", IntV(0)), gArrays |-> MapPut(EmptyMap, "S", newArrayVar(TRUE))]

\* refreshCharacterGlobals
refreshCharacterGlobals(g, chars) == MapPut(g, "CHARANUM", IntV(Len(chars)))

----------------------------------------------------------------------------

\* Go's bool as the Int evalBinary returns
BoolV(b) == IF b THEN IntV(1) ELSE IntV(0)

\* evalBinary for the comparison operators
evalBinary(op, left, right) ==
    LET anyString == left.kind = "str" \/ right.kind = "str"
    IN  CASE op = "==" -> IF anyString THEN BoolV(String(left) = String(right))
                          ELSE BoolV(Int64(left) = Int64(right))
          [] op = "!=" -> IF anyString THEN BoolV(String(left) # String(right))
                          ELSE BoolV(Int64(left) # Int64(right))
          [] op = "<"  -> BoolV(Int64(left) < Int64(right))
          [] op = "<=" -> BoolV(Int64(left) <= Int64(right))
          [] op = ">"  -> BoolV(Int64(left) > Int64(right))
          [] op = ">=" -> BoolV(Int64(left) >= Int64(right))

\* evalExpr of a literal or of a variable (a user call is evalCallExpr below)
evalExpr(e) == IF e.e = "lit" THEN e.v ELSE getVar(e.name)

Output(text, newline) == [Text |-> text, NewLine |-> newline]

\* emitOutput
emitOutput(outs, o) == Append(outs, o)

defaultInputState ==
    [Phase |-> "idle", Current |-> <<>>, Queue |-> <<>>,
     LastValue |-> <<>>, LastTimeout |-> FALSE]

BeginCandidates(kw) ==
    <<kw>> \o (CASE kw = "TITLE"   -> <<"SYSTEM_TITLE">>
                 [] kw = "FIRST"   -> <<"EVENTFIRST">>
                 [] kw = "SHOP"    -> <<"EVENTSHOP">>
                 [] kw = "TRAIN"   -> <<"EVENTTRAIN">>
                 [] kw \in {"AFTERTRAIN", "AFTERTRA", "END"} -> <<"EVENTEND">>
                 [] kw = "TURNEND" -> <<"EVENTTURNEND">>
                 [] kw = "COM"     -> <<"EVENTCOM">>
                 [] kw = "LOAD"    -> <<"EVENTLOAD">>
                 [] OTHER          -> <<>>)

\* resolveBeginTarget: the first candidate that is a function, else the keyword
resolveBeginTarget(keyword) ==
    LET cs == BeginCandidates(keyword)
        ok == {i \in 1..Len(cs) : cs[i] \in DOMAIN program.Functions}
    IN  IF ok = {} THEN keyword
        ELSE cs[CHOOSE i \in ok : \A j \in ok : i <= j]

----------------------------------------------------------------------------
(* The ERB parser: the function table *)

\* A function definition as parseFunction returns it.  Decl is the position of
\* its @NAME line among the definitions of the files: it tells apart the
\* *ast.Function objects of two definitions that have the same name.
Function(name, priority, body, decl) ==
    [Name |-> name, Priority |-> priority, Body |-> body, Decl |-> decl]

isEventFunction(name) ==
    name \in {"EVENTSHOP", "EVENTFIRST", "EVENTTRAIN", "EVENTEND", "EVENTTURNEND",
              "EVENTCOM", "EVENTLOAD", "SYSTEM_TITLE"}

SwapAt(s, i, j) ==
    [k \in 1..Len(s) |-> IF k = i THEN s[j] ELSE IF k = j THEN s[i] ELSE s[k]]

RECURSIVE sortEventInner(_, _, _)
sortEventInner(fns, i, j) ==
    IF j > Len(fns) THEN fns
    ELSE sortEventInner(IF fns[j].Priority > fns[i].Priority
                        THEN SwapAt(fns, i, j) ELSE fns, i, j + 1)

RECURSIVE sortEventOuter(_, _)
sortEventOuter(fns, i) ==
    IF i >= Len(fns) THEN fns
    ELSE sortEventOuter(sortEventInner(fns, i, i + 1), i + 1)

\* sortEventFunctions: higher priority first
sortEventFunctions(fns) == sortEventOuter(fns, 1)

\* mergeDuplicateFunction: the later body is appended, its labels shifted
mergeDuplicateFunction(dst, src) ==
    LET offset == Len(dst.Body.Statements)
        labels == [l \in (DOMAIN dst.Body.LabelMap) \cup (DOMAIN src.Body.LabelMap) |->
                     IF l \in DOMAIN src.Body.LabelMap
                     THEN src.Body.LabelMap[l] + offset
                     ELSE dst.Body.LabelMap[l]]
    IN  [dst EXCEPT !.Body = Thunk(dst.Body.Statements \o src.Body.Statements, labels)]

RECURSIVE ParseERBFrom(_, _, _)
ParseERBFrom(defs, i, result) ==
    IF i > Len(defs) THEN result
    ELSE LET fn == defs[i]
         IN  IF isEventFunction(fn.Name)
             THEN ParseERBFrom(defs, i + 1,
                    [result EXCEPT
                       !.EventFunctions =
                          MapPut(@, fn.Name,
                                 IF fn.Name \in DOMAIN @ THEN Append(@[fn.Name], fn)
                                 ELSE <<fn>>),
                       !.Functions =
                          IF fn.Name \in DOMAIN @ THEN @ ELSE MapPut(@, fn.Name, fn),
                       !.Order =
                          IF fn.Name \in DOMAIN result.Functions THEN @
                          ELSE Append(@, fn.Name)])
             ELSE IF fn.Name \in DOMAIN result.Functions
             THEN ParseERBFrom(defs, i + 1,
                    [result EXCEPT
                       !.Functions =
                          MapPut(@, fn.Name, mergeDuplicateFunction(@[fn.Name], fn))])
             ELSE ParseERBFrom(defs, i + 1,
                    [result EXCEPT !.Functions = MapPut(@, fn.Name, fn),
                                   !.Order = Append(@, fn.Name)])

\* ParseERB: defs are the function definitions of the files, in file order
ParseERB(defs) ==
    LET r == ParseERBFrom(defs, 1, [Functions |-> EmptyMap, Order |-> <<>>,
                                    EventFunctions |-> EmptyMap])
    IN  [r EXCEPT !.EventFunctions =
            [n \in DOMAIN r.EventFunctions |-> sortEventFunctions(r.EventFunctions[n])]]

\* ParseProgram: the Program keeps Functions and Order of the ERB result
ParseProgram(defs) ==
    LET r == ParseERB(defs)
    IN  [Functions |-> r.Functions, Order |-> r.Order]

----------------------------------------------------------------------------
(* The flow index of a thunk *)

TryCNames == {"TRYCCALL", "TRYCCALLFORM", "TRYCJUMP", "TRYCJUMPFORM",
              "TRYCGOTO", "TRYCGOTOFORM"}

TryListNames == {"TRYCALLLIST", "TRYJUMPLIST", "TRYGOTOLIST"}

EmptyFlow == [TryCatch |-> EmptyMap, CatchEnd |-> EmptyMap,
              TryListEnd |-> EmptyMap, TryListFuncs |-> EmptyMap]

\* One statement of buildFlowForThunk's scan; st = [flow, stack], i counts from 0
flowStep(st, i, stmt) ==
    LET stk  == st.stack
        top  == stk[Len(stk)]
        pop  == SubSeq(stk, 1, Len(stk) - 1)
        name == stmt.Name
    IN  IF stmt.op # "CommandStmt" THEN st
        ELSE IF name \in TryCNames
        THEN [st EXCEPT !.stack = Append(stk, [kind |-> "flowTryC", idx |-> i])]
        ELSE IF name = "CATCH" /\ stk # <<>> /\ top.kind = "flowTryC"
        THEN [flow  |-> [st.flow EXCEPT !.TryCatch = MapPut(@, top.idx, i)],
              stack |-> Append(pop, [kind |-> "flowCatch", idx |-> i])]
        ELSE IF name = "ENDCATCH" /\ stk # <<>> /\ top.kind = "flowCatch"
        THEN [flow  |-> [st.flow EXCEPT !.CatchEnd = MapPut(@, top.idx, i)],
              stack |-> pop]
        ELSE IF name \in TryListNames
        THEN [st EXCEPT !.stack = Append(stk, [kind |-> "flowTryList", idx |-> i])]
        ELSE IF name = "FUNC" /\ stk # <<>> /\ top.kind = "flowTryList"
        THEN [st EXCEPT !.flow.TryListFuncs =
                 MapPut(@, top.idx,
                        IF top.idx \in DOMAIN @ THEN Append(@[top.idx], stmt.Arg)
                        ELSE <<stmt.Arg>>)]
        ELSE IF name = "ENDFUNC" /\ stk # <<>> /\ top.kind = "flowTryList"
        THEN [flow  |-> [st.flow EXCEPT !.TryListEnd = MapPut(@, top.idx, i)],
              stack |-> pop]
        ELSE st

RECURSIVE flowScan(_, _, _)
flowScan(thunk, i, st) ==
    IF i >= Len(thunk.Statements) THEN st
    ELSE flowScan(thunk, i + 1, flowStep(st, i, thunk.Statements[i + 1]))

\* buildFlowForThunk: the thunkFlow that vm.flowMap holds for the thunk
buildFlowForThunk(thunk) ==
    flowScan(thunk, 0, [flow |-> EmptyFlow, stack |-> <<>>]).flow

----------------------------------------------------------------------------
(* The scripts the model runs *)

W(word) == <<word>>

PrintL(word) == PrintStmt(W(word))

Num(n) == Lit(IntV(n))

Blank == [e |-> "blank", v |-> IntV(0), name |-> ""]

TryCatchLines(cmd, target) ==
    <<CommandStmt(cmd, target, <<>>), CommandStmt("PRINTVL", "", <<VarRef("RESULT")>>),
      CommandStmt("CATCH", "", <<>>), PrintL("caught"),
      CommandStmt("ENDCATCH", "", <<>>), PrintL("mid"), Label("L"), PrintL("atL")>>

TryListLines(cmd, targets) ==
    <<CommandStmt(cmd, "", <<>>)>>
    \o [i \in 1..Len(targets) |-> CommandStmt("FUNC", targets[i], <<>>)]
    \o <<CommandStmt("ENDFUNC", "", <<>>), PrintL("mid"), Label("L"), PrintL("atL")>>

InIf(lines) == <<IfStmt(Num(1), parseThunk(lines), EmptyThunk), QuitStmt>>

\* TRYGOTO target / PRINTL mid / $L / PRINTL atL
TryGotoLines(target) ==
    <<CommandStmt("TRYGOTO", target, <<>>), PrintL("mid"), Label("L"), PrintL("atL")>>

\* Bodies of @TITLE that call @A
TitleCallsA ==
    { <<CallStmt("A"), PrintL("skipped"), Label("L"), PrintL("atL"),
        CommandStmt("PRINTVL", "", <<VarRef("RESULT")>>), QuitStmt>>,
      <<RepeatStmt(Num(2), parseThunk(<<CallStmt("A"), PrintL("inloop")>>)),
        PrintL("after"), QuitStmt>>,
      TryCatchLines("TRYCCALL", "A"),
      TryListLines("TRYCALLLIST", <<"NOFN", "A", "B">>) }

\* Bodies of @TITLE that use @F in an expression
TitleCallsF ==
    { <<AssignStmt("X", CallExpr("F")), PrintL("after"),
        CommandStmt("PRINTVL", "", <<VarRef("X")>>), QuitStmt>> }

\* FOR I, 1, 3 / body / NEXT / PRINTVL I / QUIT
ForLoop(body) ==
    <<ForStmt("I", Num(1), Num(3), Num(1), parseThunk(body)),
      CommandStmt("PRINTVL", "", <<VarRef("I")>>), QuitStmt>>

\* Bodies of @TITLE that loop: the body prints I, assigns I, or leaves the loop
ForScripts ==
    { ForLoop(<<CommandStmt("PRINTVL", "", <<VarRef("I")>>)>>),
      ForLoop(<<CommandStmt("PRINTVL", "", <<VarRef("I")>>), AssignStmt("I", Num(5))>>),
      ForLoop(<<CommandStmt("PRINTVL", "", <<VarRef("I")>>), BreakStmt>>) }

\* Bodies of @TITLE that call no function
TitlePlain ==
    { TryCatchLines("TRYCCALL", "NOFN"),
      TryCatchLines("TRYCGOTO", "L"),
      TryCatchLines("TRYCGOTO", "NOL"),
      InIf(TryCatchLines("TRYCGOTO", "L")),
      InIf(TryCatchLines("TRYCGOTO", "NOL")),
      TryListLines("TRYCALLLIST", <<"NOFN", "NOFN2">>),
      TryListLines("TRYGOTOLIST", <<"NOL", "L">>),
      TryListLines("TRYGOTOLIST", <<"NOL">>),
      InIf(TryListLines("TRYGOTOLIST", <<"NOL", "L">>)),
      TryGotoLines("L"),
      TryGotoLines("NOL"),
      InIf(TryGotoLines("L")),
      InIf(TryGotoLines("NOL")),
      <<BeginStmt("SHOP")>>,
      <<PrintL("a"), PrintL("b"), CommandStmt("CLEARLINE", "", <<Num(1)>>), PrintL("c"),
        CommandStmt("DEBUGCLEAR", "", <<>>), PrintL("d"),
        CommandStmt("CLEARLINE", "", <<>>), CommandStmt("CLEARLINE", "", <<Num(2)>>)>> }
    \cup ForScripts

ReturnsFive == <<ReturnStmt(<<Num(5)>>)>>

ReturnsThree == <<ReturnStmt(<<Num(3)>>)>>

\* Bodies of @A that call nothing
ABodies ==
    { ReturnsFive,
      <<GotoStmt("L")>>,
      <<BeginStmt("SHOP")>>,
      <<QuitStmt>>,
      <<BreakStmt>>,
      <<IfStmt(Num(1), parseThunk(<<GotoStmt("L2")>>), EmptyThunk), PrintL("skipA"),
        Label("L2"), PrintL("atL2")>> }

\* Bodies of @A that call @B
ACallsB ==
    { <<CallStmt("B"), CommandStmt("PRINTVL", "", <<VarRef("RESULT")>>),
        ReturnStmt(<<Num(7), Num(8)>>)>>,
      <<CallStmt("B")>> }

BBodies ==
    { ReturnsThree, <<ReturnStmt(<<>>)>>, <<QuitStmt>>, <<GotoStmt("L")>>, <<BeginStmt("SHOP")>> }

FBodies ==
    { <<ReturnStmt(<<Num(9)>>)>>, <<BeginStmt("SHOP")>>, <<QuitStmt>>, <<GotoStmt("L")>>,
      <<CallStmt("NOFN")>> }

\* INPUT 5 / PRINTVL RESULT / TINPUT 10, 42, 1, "timeout" / PRINTVL RESULT / QUIT
InputDefaultScript ==
    <<CommandStmt("INPUT", "", <<Num(5)>>),
      CommandStmt("PRINTVL", "", <<VarRef("RESULT")>>),
      CommandStmt("TINPUT", "", <<Num(10), Num(42), Num(1), Lit(StrV(W("timeout")))>>),
      CommandStmt("PRINTVL", "", <<VarRef("RESULT")>>),
      QuitStmt>>

\* PRINTW hello / INPUT / PRINTVL RESULT
PrintWScript ==
    <<CommandStmt("PRINTW", "", <<Lit(StrV(W("hello")))>>),
      CommandStmt("INPUT", "", <<>>),
      CommandStmt("PRINTVL", "", <<VarRef("RESULT")>>)>>

\* INPUT / PRINTVL RESULT / TINPUT 10 / WAIT / TINPUT 10, , , "late" / PRINTVL RESULT
InputsScript ==
    <<CommandStmt("INPUT", "", <<>>),
      CommandStmt("PRINTVL", "", <<VarRef("RESULT")>>),
      CommandStmt("TINPUT", "", <<Num(10)>>),
      CommandStmt("WAIT", "", <<>>),
      CommandStmt("TINPUT", "", <<Num(10), Blank, Blank, Lit(StrV(W("late")))>>),
      CommandStmt("PRINTVL", "", <<VarRef("RESULT")>>)>>

\* Bodies of @TITLE that read input
TitleInput == {InputDefaultScript, PrintWScript, InputsScript}

\* The bodies <<TITLE, A, B, F>> of the control-flow scripts
FlowScripts ==
    {<<t, a, ReturnsThree, ReturnsFive>> : t \in TitleCallsA, a \in ABodies}
    \cup {<<t, a, b, ReturnsFive>> : t \in TitleCallsA, a \in ACallsB, b \in BBodies}
    \cup {<<t, ReturnsFive, ReturnsThree, f>> : t \in TitleCallsF, f \in FBodies}
    \cup {<<t, ReturnsFive, ReturnsThree, ReturnsFive>> : t \in TitlePlain}

InputScripts == {<<t, ReturnsFive, ReturnsThree, ReturnsFive>> : t \in TitleInput}

\* The comparison operators of evalBinary
CompareOps == {"==", "!=", "<", "<=", ">", ">="}

\* Operands of mixed kind: 2 and 10 against "9", "10" and "a"
MixedOperands ==
    LET ints == {IntV(2), IntV(10)}
        strs == {StrV(<<"9">>), StrV(<<"1", "0">>), StrV(<<"a">>)}
    IN  (ints \X strs) \cup (strs \X ints)

\* X = l op r / PRINTVL X / QUIT
CompareScripts ==
    {<<<<BinaryAssign("X", op, Lit(p[1]), Lit(p[2])),
         CommandStmt("PRINTVL", "", <<VarRef("X")>>), QuitStmt>>,
       ReturnsFive, ReturnsThree, ReturnsFive>> : op \in CompareOps, p \in MixedOperands}

\* INPUT / PRINTVL RESULT / RETURN 5: a function that waits for the host
AsksInput ==
    <<CommandStmt("INPUT", "", <<>>), CommandStmt("PRINTVL", "", <<VarRef("RESULT")>>),
      ReturnStmt(<<Num(5)>>)>>

\* WAIT / RETURN 3
AsksWait == <<CommandStmt("WAIT", "", <<>>), ReturnStmt(<<Num(3)>>)>>

\* X = <name>() / PRINTL after / PRINTVL X / QUIT
TitleAssignsCall(name) ==
    <<AssignStmt("X", CallExpr(name)), PrintL("after"),
      CommandStmt("PRINTVL", "", <<VarRef("X")>>), QuitStmt>>

\* The bodies <<TITLE, A, B, F, ABS>> of the scripts whose input is asked for
\* below @TITLE: under CALL, TRYCCALL, TRYCALLLIST and inside an expression,
\* by a function of its own name and by one named like the built-in ABS
NestedInputScripts ==
    {<<t, a, AsksWait, ReturnsFive, ReturnsFive>> :
        t \in {<<CallStmt("A"), PrintL("after"), QuitStmt>>,
               TryCatchLines("TRYCCALL", "A"),
               TryListLines("TRYCALLLIST", <<"NOFN", "A">>)},
        a \in {AsksInput, <<CallStmt("B"), PrintL("inA")>>}}
    \cup {<<TitleAssignsCall("F"), ReturnsFive, ReturnsThree, AsksInput, ReturnsFive>>,
          <<TitleAssignsCall("ABS"), ReturnsFive, ReturnsThree, ReturnsFive, AsksInput>>,
          <<TitleAssignsCall("ABS"), ReturnsFive, ReturnsThree, ReturnsFive, ReturnsFive>>}

\* Sequences over S of length at most n
RECURSIVE SeqsUpTo(_, _)
SeqsUpTo(S, n) ==
    IF n = 0 THEN {<<>>}
    ELSE LET shorter == SeqsUpTo(S, n - 1)
         IN  shorter \cup {Append(q, x) : q \in {r \in shorter : Len(r) = n - 1}, x \in S}

\* What the host may type: "12", "", "7" and a word that is no number
InputTexts == {<<"1", "2">>, <<>>, <<"7">>, W("x")}

\* The priorities (1 for #PRI) of the @EVENTSHOP definitions of a file
HandlerPriorities == SeqsUpTo({0, 1}, MaxHandlers)

\* The function definitions of the file, in file order; an @EVENTSHOP
\* definition prints the position of its own definition
Definitions(script, pris) ==
    LET named == <<Function("TITLE", 0, parseThunk(script[1]), 1),
                   Function("A", 0, parseThunk(script[2]), 2),
                   Function("B", 0, parseThunk(script[3]), 3),
                   Function("F", 0, parseThunk(script[4]), 4)>>
                 \o [i \in 1..(Len(script) - 4) |->
                       Function("ABS", 0, parseThunk(script[4 + i]), 4 + i)]
    IN  named \o [i \in 1..Len(pris) |->
                    Function("EVENTSHOP", pris[i],
                             parseThunk(<<PrintStmt(FormatInt(Len(named) + i))>>),
                             Len(named) + i)]

\* Files that declare @A twice: @TITLE calls A; the first declaration jumps to
\* a label, the second has a label of its own or one named like the first's
TwiceDeclared ==
    LET first  == {<<GotoStmt(l), PrintL("skip"), Label("L1"), PrintL("one")>> :
                     l \in {"L1", "L2"}}
        second == {<<PrintL("two"), Label(l), PrintL("end")>> : l \in {"L1", "L2"}}
    IN  {<<Function("TITLE", 0, parseThunk(<<CallStmt("A"), QuitStmt>>), 1),
           Function("A", 0, parseThunk(a), 2),
           Function("A", 0, parseThunk(b), 3)>> : a \in first, b \in second}

----------------------------------------------------------------------------
(* The host: New, EnqueueInput, SetInputProvider, Run *)

\* The history: the queue Run started with, the input requests resolved, the
\* frame depth of the last GOTO and whether some GOTO named a label its
\* function does not have, whether a BEGIN or QUIT is on its way to Run, the
\* event BEGIN reached and the definitions run for it, the targets the last
\* TRY*LIST dispatched, the value of the last RETURN and whether the caller
\* has run a statement since, the queue before the last PRINT* command, and
\* the values the variable of the last FOR had when its body started, whether
\* the body left the loop, and whether the loop has just ended
NoHist ==
    [q0 |-> <<>>, inputs |-> <<>>, gotoDepth |-> 0, badGoto |-> FALSE,
     leaving |-> FALSE, event |-> "", evRan |-> <<>>, dispatch |-> <<>>,
     retVal |-> <<>>, returned |-> FALSE, qBefore |-> <<>>,
     forBody |-> <<>>, forLeft |-> FALSE, forExit |-> FALSE,
     breakDepth |-> 0]

\* A save directory with no file
NoDatFiles == [var |-> <<>>, chara |-> <<>>]

\* The history of the variable store: the operations run, the targets the
\* REF names were last bound to, the names whose binding a reset followed, and
\* the last read or write with the store it was made in
NoStoreHist == [ops |-> 0, bound |-> EmptyMap, cleared |-> {}, last |-> <<>>]

\* A statement is being run: the state a callee returned in is gone
Executed == [hist EXCEPT !.returned = FALSE, !.forExit = FALSE]

\* New(program): a VM that has run nothing
Init ==
    /\ \/ /\ \E script \in FlowScripts, pris \in HandlerPriorities :
                files = Definitions(script, pris)
          /\ hostInputs = <<>>
       \/ /\ \E script \in InputScripts \cup NestedInputScripts :
                files = Definitions(script, <<>>)
          /\ hostInputs \in SeqsUpTo(InputTexts, MaxQueue)
       \/ /\ \E script \in CompareScripts : files = Definitions(script, <<>>)
          /\ hostInputs = <<>>
       \/ /\ files \in TwiceDeclared
          /\ hostInputs = <<>>
    /\ program = ParseProgram(files)
    /\ phase = "idle"
    /\ current = ""
    /\ stack = <<>>
    /\ ctl = <<>>
    /\ res = resultNone
    /\ execThunk = EmptyThunk
    /\ execPC = -1
    /\ globals = EmptyMap
    /\ outputs = <<>>
    /\ hookOutputs = <<>>
    /\ input = defaultInputState
    /\ inputProvider = FALSE
    /\ runResult = [outputs |-> <<>>, err |-> ""]
    /\ hist = NoHist
    /\ vmRuns = <<>>
    /\ cmds = <<>>
    /\ model = newModel
    /\ gArrays = EmptyMap
    /\ gRefs = EmptyMap
    /\ characters = <<>>
    /\ saved = <<>>
    /\ storeHist = NoStoreHist
    /\ datFiles = NoDatFiles
    /\ execSteps = 0
    /\ form = NoForm
    /\ array = NoArray
    /\ arrayHist = NoArrayHist

\* EnqueueInput(value)
EnqueueInput ==
    /\ phase = "idle"
    /\ hostInputs # <<>>
    /\ input' = [input EXCEPT !.Queue = Append(@, Head(hostInputs))]
    /\ UNCHANGED execSteps
    /\ hostInputs' = Tail(hostInputs)
    /\ UNCHANGED <<frontend, datastore, files, program, phase, current, stack, ctl, res, execThunk, execPC,
                   globals, outputs, hookOutputs, inputProvider, runResult, hist>>

\* SetInputProvider(provider) with provider # nil
SetInputProvider ==
    /\ phase = "idle"
    /\ ~inputProvider
    /\ inputProvider' = TRUE
    /\ UNCHANGED <<frontend, datastore, files, program, hostInputs, phase, current, stack, ctl, res, execThunk,
                   execPC, globals, outputs, hookOutputs, input, execSteps, runResult, hist>>

\* runThunk(thunk), called with c the Go call stack of the caller: the entry
\* of the function, up to the first statement
runThunk(c, thunk) ==
    /\ ctl' = Append(c, [fn |-> "runThunk", thunk |-> thunk, pc |-> 0,
                         prevThunk |-> execThunk, prevPC |-> execPC])
    /\ execThunk' = thunk
    /\ execPC' = IF thunk.Statements = <<>> THEN -1 ELSE 0
    /\ phase' = "exec"
    /\ res' = resultNone

\* callFunction(name, nil), called with c the Go call stack of the caller
callFunction(c, name) ==
    IF name \notin DOMAIN program.Functions
    THEN /\ res' = Errorf("function not found")
         /\ ctl' = c
         /\ phase' = "ret"
         /\ UNCHANGED <<stack, execThunk, execPC>>
    ELSE /\ stack' = Append(stack, frame(program.Functions[name]))
         /\ runThunk(Append(c, [fn |-> "callFunction", name |-> name]),
                     program.Functions[name].Body)

\* callFunctionArgs(name, args, missing) with no arguments: the call of a user
\* function that evalCallExpr makes
callFunctionArgs(c, name) == callFunction(c, name)

\* Run("TITLE"), up to the first statement of the entry function
Run ==
    /\ phase = "idle"
    /\ outputs' = <<>>
    /\ UNCHANGED hookOutputs
    /\ input' = [defaultInputState EXCEPT !.Queue = input.Queue]
    /\ UNCHANGED execSteps
    /\ current' = "TITLE"
    /\ callFunction(<<>>, "TITLE")
    /\ hist' = [hist EXCEPT !.q0 = input.Queue]
    /\ UNCHANGED <<frontend, datastore, files, program, hostInputs, globals, inputProvider, runResult>>

\* Run: the result of callFunction(current) came back to its loop
RunResult ==
    /\ phase = "ret"
    /\ ctl = <<>>
    /\ IF res.err # ""
       THEN /\ runResult' = [outputs |-> <<>>, err |-> res.err]
            /\ phase' = "done"
            /\ UNCHANGED <<current, stack, ctl, res, execThunk, execPC>>
       ELSE IF res.kind = "resultBegin"
       THEN /\ current' = resolveBeginTarget(res.keyword)
            /\ callFunction(<<>>, resolveBeginTarget(res.keyword))
            /\ UNCHANGED runResult
       ELSE IF res.kind = "resultGoto"
       THEN /\ runResult' = [outputs |-> <<>>, err |-> "uncaught goto"]
            /\ phase' = "done"
            /\ UNCHANGED <<current, stack, ctl, res, execThunk, execPC>>
       ELSE /\ runResult' = [outputs |-> outputs, err |-> ""]
            /\ phase' = "done"
            /\ UNCHANGED <<current, stack, ctl, res, execThunk, execPC>>
    /\ hist' = IF res.err = "" /\ res.kind = "resultBegin"
                  /\ isEventFunction(resolveBeginTarget(res.keyword))
                  /\ resolveBeginTarget(res.keyword) \in DOMAIN program.Functions
               THEN [hist EXCEPT
                       !.leaving = FALSE, !.returned = FALSE,
                       !.event = resolveBeginTarget(res.keyword),
                       !.evRan = <<program.Functions[resolveBeginTarget(res.keyword)].Decl>>]
               ELSE [hist EXCEPT !.leaving = FALSE, !.returned = FALSE]
    /\ UNCHANGED <<frontend, datastore, files, program, hostInputs, globals, outputs, hookOutputs, input, execSteps, inputProvider>>

----------------------------------------------------------------------------
(* runThunk and callFunction: what they do with a result *)

\* The statement that runThunk is about to run
AtStatement ==
    /\ phase = "exec"
    /\ Top.fn = "runThunk"
    /\ Top.pc < Len(Top.thunk.Statements)

CurStmt == Top.thunk.Statements[Top.pc + 1]

\* The statement at Top.pc returned r to runThunk's loop
Returns(r) ==
    /\ res' = r
    /\ phase' = "ret"
    /\ UNCHANGED <<ctl, stack, execThunk, execPC>>

\* runThunk returns r to its caller; its deferred function restores execThunk, execPC
runThunkReturn(r) ==
    /\ res' = r
    /\ ctl' = Caller
    /\ execThunk' = Top.prevThunk
    /\ execPC' = Top.prevPC
    /\ phase' = "ret"

\* runThunk's loop goes on at statement pc (or leaves the loop)
runThunkAt(pc) ==
    /\ ctl' = [ctl EXCEPT ![Len(ctl)].pc = pc]
    /\ execPC' = IF pc < Len(Top.thunk.Statements) THEN pc ELSE execPC
    /\ execThunk' = execThunk
    /\ phase' = "exec"
    /\ res' = resultNone

\* runThunk: the loop is over
runThunkEnd ==
    /\ phase = "exec"
    /\ Top.fn = "runThunk"
    /\ Top.pc >= Len(Top.thunk.Statements)
    /\ runThunkReturn(resultNone)
    /\ UNCHANGED <<frontend, datastore, files, program, hostInputs, current, stack, globals, outputs, hookOutputs, input, execSteps,
                   inputProvider, runResult, hist>>

\* runThunk: the statement at pc returned (res, err)
runThunkResult ==
    /\ phase = "ret"
    /\ ctl # <<>>
    /\ Top.fn = "runThunk"
    /\ IF res.err # "" THEN runThunkReturn(res)
       ELSE IF res.kind = "resultGoto"
       THEN IF res.label \in DOMAIN Top.thunk.LabelMap
            THEN runThunkAt(Top.thunk.LabelMap[res.label])
            ELSE runThunkReturn(res)
       ELSE IF res.kind = "resultJumpIndex"
       THEN IF res.index >= 0 /\ res.index < Len(Top.thunk.Statements)
            THEN runThunkAt(res.index)
            ELSE runThunkReturn(Errorf("invalid jump index"))
       ELSE IF res.kind # "resultNone" THEN runThunkReturn(res)
       ELSE runThunkAt(Top.pc + 1)
    /\ UNCHANGED <<frontend, datastore, files, program, hostInputs, current, stack, globals, outputs, hookOutputs, input, execSteps,
                   inputProvider, runResult, hist>>

\* callFunction that pops the frame after runThunk instead of in a deferred
\* function: an error or a propagating result leaves the frame on the stack
callFunctionReturnNoDefer ==
    /\ phase = "ret"
    /\ ctl # <<>>
    /\ Top.fn = "callFunction"
    /\ stack' = IF res.err = "" /\ res.kind \in {"resultNone", "resultReturn"}
                THEN SubSeq(stack, 1, Len(stack) - 1) ELSE stack
    /\ ctl' = Caller
    /\ phase' = "ret"
    /\ IF res.err = "" /\ res.kind = "resultReturn"
       THEN /\ globals' = storeResult(globals, res.values)
            /\ res' = resultNone
       ELSE /\ globals' = globals
            /\ res' = res
    /\ hist' = [hist EXCEPT !.returned = res.err = "" /\ res.kind = "resultReturn"
                                           /\ res.values # <<>>]
    /\ UNCHANGED <<frontend, datastore, files, program, hostInputs, current, execThunk, execPC, outputs, hookOutputs, input, execSteps,
                   inputProvider, runResult>>

\* callFunction: runThunk(fn.Body) returned; the deferred function pops the frame
callFunctionReturn ==
    /\ phase = "ret"
    /\ ctl # <<>>
    /\ Top.fn = "callFunction"
    /\ stack' = SubSeq(stack, 1, Len(stack) - 1)
    /\ ctl' = Caller
    /\ phase' = "ret"
    /\ IF res.err = "" /\ res.kind = "resultReturn"
       THEN /\ globals' = storeResult(globals, res.values)
            /\ res' = resultNone
       ELSE /\ globals' = globals
            /\ res' = res
    /\ hist' = [hist EXCEPT !.returned = res.err = "" /\ res.kind = "resultReturn"
                                           /\ res.values # <<>>]
    /\ UNCHANGED <<frontend, datastore, files, program, hostInputs, current, execThunk, execPC, outputs, hookOutputs, input, execSteps,
                   inputProvider, runResult>>

----------------------------------------------------------------------------
(* runStatement *)

\* What no statement changes
host == <<frontend, datastore, files, program, hostInputs, current, inputProvider, runResult>>

\* case ast.PrintStmt
RunPrintStmt ==
    /\ AtStatement /\ CurStmt.op = "PrintStmt"
    /\ outputs' = emitOutput(outputs, Output(String(evalExpr(CurStmt.Exprs[1])),
                                            CurStmt.Name = "PRINTL"))
    /\ hookOutputs' = emitOutput(hookOutputs, Output(String(evalExpr(CurStmt.Exprs[1])),
                                                    CurStmt.Name = "PRINTL"))
    /\ Returns(resultNone)
    /\ UNCHANGED <<host, globals, input, execSteps>>
    /\ hist' = Executed

\* case ast.AssignStmt; a user function in the expression is evalCallExpr, which
\* calls it through callFunctionArgs
RunAssignStmt ==
    /\ AtStatement /\ CurStmt.op = "AssignStmt"
    /\ IF CurStmt.Exprs[1].e = "call"
       THEN IF CurStmt.Exprs[1].name \in DOMAIN program.Functions
            THEN callFunctionArgs(Append(ctl, [fn |-> "evalCallExpr",
                                               target |-> CurStmt.Name,
                                               name |-> CurStmt.Exprs[1].name]),
                                  CurStmt.Exprs[1].name)
            ELSE Returns(Errorf("unknown expression call"))
       ELSE Returns(resultNone)
    /\ globals' = IF CurStmt.Exprs[1].e = "call" THEN globals
                  ELSE IF CurStmt.Arg # ""
                  THEN setVar(globals, CurStmt.Name,
                              evalBinary(CurStmt.Arg, evalExpr(CurStmt.Exprs[1]),
                                         evalExpr(CurStmt.Exprs[2])))
                  ELSE setVar(globals, CurStmt.Name, evalExpr(CurStmt.Exprs[1]))
    /\ UNCHANGED <<host, outputs, hookOutputs, input, execSteps>>
    /\ hist' = Executed

\* execMethodLike(name, "") for a call without arguments: (value, handled)
execMethodLike(name) ==
    IF name = "ABS" THEN [v |-> IntV(0), handled |-> TRUE]
    ELSE [v |-> IntV(0), handled |-> FALSE]

\* evalCallExpr: callFunctionArgs returned; the expression's value is RESULT,
\* and the assignment stores it. When the function failed, the built-in of
\* the same name is tried and its value taken
evalCallExprResult ==
    /\ phase = "ret"
    /\ ctl # <<>>
    /\ Top.fn = "evalCallExpr"
    /\ ctl' = Caller
    /\ phase' = "ret"
    /\ IF res.err # ""
       THEN IF execMethodLike(Top.name).handled
            THEN /\ res' = resultNone
                 /\ globals' = setVar(globals, Top.target, execMethodLike(Top.name).v)
            ELSE /\ res' = res
                 /\ globals' = globals
       ELSE /\ res' = resultNone
            /\ globals' = setVar(globals, Top.target, getVar("RESULT"))
    /\ UNCHANGED <<host, stack, execThunk, execPC, outputs, hookOutputs, input, execSteps, hist>>

\* case ast.IfStmt: one branch and the else thunk
RunIfStmt ==
    /\ AtStatement /\ CurStmt.op = "IfStmt"
    /\ runThunk(ctl, IF Truthy(evalExpr(CurStmt.Exprs[1]))
                     THEN CurStmt.Body[1] ELSE CurStmt.Body[2])
    /\ UNCHANGED <<host, stack, globals, outputs, hookOutputs, input, execSteps>>
    /\ hist' = Executed

\* case ast.RepeatStmt, up to the first run of the body
RunRepeatStmt ==
    /\ AtStatement /\ CurStmt.op = "RepeatStmt"
    /\ LET count == Int64(evalExpr(CurStmt.Exprs[1]))
           n     == IF count < 0 THEN 0 ELSE count
       IN  IF 0 < n
           THEN runThunk(Append(ctl, [fn |-> "RepeatStmt", i |-> 0, n |-> n,
                                      body |-> CurStmt.Body[1]]),
                         CurStmt.Body[1])
           ELSE Returns(resultNone)
    /\ UNCHANGED <<host, stack, globals, outputs, hookOutputs, input, execSteps>>
    /\ hist' = Executed

\* case ast.RepeatStmt: the body returned (res, err)
RepeatStmtResult ==
    /\ phase = "ret"
    /\ ctl # <<>>
    /\ Top.fn = "RepeatStmt"
    /\ IF res.err = "" /\ res.kind \in {"resultNone", "resultContinue"} /\ Top.i + 1 < Top.n
       THEN runThunk([ctl EXCEPT ![Len(ctl)].i = Top.i + 1], Top.body)
       ELSE /\ ctl' = Caller
            /\ phase' = "ret"
            /\ res' = IF res.err # "" THEN res
                      ELSE IF res.kind \in {"resultNone", "resultContinue", "resultBreak"}
                      THEN resultNone
                      ELSE res
            /\ UNCHANGED <<execThunk, execPC>>
    /\ UNCHANGED <<host, stack, globals, outputs, hookOutputs, input, execSteps, hist>>

\* case ast.ForStmt: the loop variable has come to the limit
forLimitReachedPast(cur, limit, step) ==
    (step > 0 /\ cur > limit) \/ (step < 0 /\ cur < limit)

forLimitReached(cur, limit, step) ==
    (step > 0 /\ cur >= limit) \/ (step < 0 /\ cur <= limit)

\* case ast.ForStmt, up to the first run of the body. The scripts of this
\* specification declare no array and no REF name, so setVarRef leaves
\* everything but the globals alone
RunForStmt ==
    /\ AtStatement /\ CurStmt.op = "ForStmt"
    /\ LET initVal == Int64(evalExpr(CurStmt.Exprs[1]))
           limit   == Int64(evalExpr(CurStmt.Exprs[2]))
           stepVal == Int64(evalExpr(CurStmt.Exprs[3]))
           step    == IF stepVal = 0 THEN 1 ELSE stepVal
           target  == Ref(CurStmt.Name, <<>>)
           set     == setVarRef(Store, target, IntV(initVal))
           cur     == Int64(getVarRef(set.d, target).v)
       IN  /\ globals' = set.d.globals
           /\ IF forLimitReached(cur, limit, step)
              THEN /\ Returns(resultNone)
                   /\ hist' = [Executed EXCEPT !.forBody = <<>>, !.forLeft = FALSE,
                                               !.forExit = TRUE]
              ELSE /\ runThunk(Append(ctl, [fn |-> "ForStmt", target |-> target,
                                            cur |-> cur, limit |-> limit, step |-> step,
                                            body |-> CurStmt.Body[1]]),
                               CurStmt.Body[1])
                   /\ hist' = [Executed EXCEPT !.forBody = <<cur>>, !.forLeft = FALSE]
    /\ UNCHANGED <<host, stack, outputs, hookOutputs, input, execSteps>>

\* case ast.ForStmt: the body returned (res, err)
ForStmtResult ==
    /\ phase = "ret"
    /\ ctl # <<>>
    /\ Top.fn = "ForStmt"
    /\ IF res.err = "" /\ res.kind \in {"resultNone", "resultContinue"}
       THEN LET set == setVarRef(Store, Top.target, IntV(Top.cur + Top.step))
                cur == Int64(getVarRef(set.d, Top.target).v)
            IN  /\ globals' = set.d.globals
                /\ IF forLimitReached(cur, Top.limit, Top.step)
                   THEN /\ ctl' = Caller
                        /\ phase' = "ret"
                        /\ res' = resultNone
                        /\ hist' = [hist EXCEPT !.forExit = TRUE]
                        /\ UNCHANGED <<execThunk, execPC>>
                   ELSE /\ runThunk([ctl EXCEPT ![Len(ctl)].cur = cur], Top.body)
                        /\ hist' = [hist EXCEPT !.forBody = Append(@, cur)]
       ELSE /\ ctl' = Caller
            /\ phase' = "ret"
            /\ res' = IF res.err = "" /\ res.kind = "resultBreak" THEN resultNone ELSE res
            /\ hist' = [hist EXCEPT !.forLeft = TRUE, !.forExit = TRUE]
            /\ UNCHANGED <<globals, execThunk, execPC>>
    /\ UNCHANGED <<host, stack, outputs, hookOutputs, input, execSteps>>

\* case ast.GotoStmt
RunGotoStmt ==
    /\ AtStatement /\ CurStmt.op = "GotoStmt"
    /\ Returns(resultGoto(CurStmt.Name))
    /\ UNCHANGED <<host, globals, outputs, hookOutputs, input, execSteps>>
    /\ hist' = [Executed EXCEPT
                  !.gotoDepth = Len(stack),
                  !.badGoto = @ \/ CurStmt.Name \notin LabelsOf(currentFrame.fn.Body)]

\* case ast.CallStmt: whatever callFunction returns is the statement's result
RunCallStmt ==
    /\ AtStatement /\ CurStmt.op = "CallStmt"
    /\ callFunction(ctl, CurStmt.Name)
    /\ UNCHANGED <<host, globals, outputs, hookOutputs, input, execSteps>>
    /\ hist' = Executed

RECURSIVE evalValues(_)
evalValues(es) == IF es = <<>> THEN <<>> ELSE <<evalExpr(Head(es))>> \o evalValues(Tail(es))

\* case ast.ReturnStmt
RunReturnStmt ==
    /\ AtStatement /\ CurStmt.op = "ReturnStmt"
    /\ Returns(resultReturn(evalValues(CurStmt.Exprs)))
    /\ UNCHANGED <<host, globals, outputs, hookOutputs, input, execSteps>>
    /\ hist' = [Executed EXCEPT !.retVal = evalValues(CurStmt.Exprs)]

\* case ast.BeginStmt
RunBeginStmt ==
    /\ AtStatement /\ CurStmt.op = "BeginStmt"
    /\ Returns(resultBegin(CurStmt.Name))
    /\ UNCHANGED <<host, globals, outputs, hookOutputs, input, execSteps>>
    /\ hist' = [Executed EXCEPT !.leaving = TRUE]

\* case ast.QuitStmt
RunQuitStmt ==
    /\ AtStatement /\ CurStmt.op = "QuitStmt"
    /\ Returns(execResult("resultQuit"))
    /\ UNCHANGED <<host, globals, outputs, hookOutputs, input, execSteps>>
    /\ hist' = [Executed EXCEPT !.leaving = TRUE]

\* case ast.BreakStmt
RunBreakStmt ==
    /\ AtStatement /\ CurStmt.op = "BreakStmt"
    /\ Returns(execResult("resultBreak"))
    /\ UNCHANGED <<host, globals, outputs, hookOutputs, input, execSteps>>
    /\ hist' = [Executed EXCEPT !.breakDepth = Len(stack)]

----------------------------------------------------------------------------
(* runCommandStatement: printing and control flow *)

AtCommand(names) ==
    /\ AtStatement
    /\ CurStmt.op = "CommandStmt"
    /\ CurStmt.Name \in names

\* The commands whose name begins with PRINT
PrintCommands == {"PRINT", "PRINTW", "PRINTV", "PRINTVL", "PRINTVW"}

\* strings.HasPrefix(name, "PRINTV")
IsPrintV(name) == name \in {"PRINTV", "PRINTVL", "PRINTVW"}

shouldNewlineOnPrint(name) == name \in {"PRINTL", "PRINTVL"}

RECURSIVE evalPrintV(_)
evalPrintV(parts) ==
    IF parts = <<>> THEN <<>>
    ELSE String(evalExpr(Head(parts))) \o evalPrintV(Tail(parts))

\* evalCommandPrint: PRINTV* prints values, the plain commands print their text
evalCommandPrint(name, parts) ==
    IF IsPrintV(name) THEN evalPrintV(parts) ELSE parts[1].v.s

\* the PRINT* commands
RunCommandPrint ==
    /\ AtCommand(PrintCommands)
    /\ outputs' = emitOutput(outputs, Output(evalCommandPrint(CurStmt.Name, CurStmt.Exprs),
                                            shouldNewlineOnPrint(CurStmt.Name)))
    /\ hookOutputs' = emitOutput(hookOutputs,
                                 Output(evalCommandPrint(CurStmt.Name, CurStmt.Exprs),
                                        shouldNewlineOnPrint(CurStmt.Name)))
    /\ Returns(resultNone)
    /\ UNCHANGED <<host, globals, input, execSteps>>
    /\ hist' = [Executed EXCEPT !.qBefore = input.Queue]

\* currentFlow: the flow index of the thunk being run
currentFlow == buildFlowForThunk(execThunk)

\* handleTryFailure
handleTryFailure(name) ==
    IF name \notin TryCNames THEN resultNone
    ELSE IF execPC \notin DOMAIN currentFlow.TryCatch THEN resultNone
    ELSE LET jump == currentFlow.TryCatch[execPC] + 1
         IN  resultJumpIndex(IF jump < 0 THEN 0 ELSE jump)

\* case "CATCH": reached by falling out of the protected command
RunCatch ==
    /\ AtCommand({"CATCH"})
    /\ globals' = MapPut(globals, "RESULT", IntV(1))
    /\ IF execPC \in DOMAIN currentFlow.CatchEnd
       THEN Returns(resultJumpIndex(currentFlow.CatchEnd[execPC]))
       ELSE Returns(resultNone)
    /\ UNCHANGED <<host, outputs, hookOutputs, input, execSteps>>
    /\ hist' = Executed

\* case "ENDCATCH", "FUNC", "ENDFUNC"
\* case "DEBUGCLEAR", and case "CLEARLINE": execClearLine
RunClear ==
    /\ AtCommand({"DEBUGCLEAR", "CLEARLINE"})
    /\ IF CurStmt.Name = "DEBUGCLEAR"
       THEN /\ outputs' = <<>>
            /\ globals' = MapPut(globals, "RESULT", IntV(1))
       ELSE LET v == IF CurStmt.Exprs # <<>> THEN Int64(evalExpr(CurStmt.Exprs[1])) ELSE 0
                n == IF v > 0 THEN v ELSE 1
                k == IF n > Len(outputs) THEN Len(outputs) ELSE n
            IN  /\ outputs' = SubSeq(outputs, 1, Len(outputs) - k)
                /\ globals' = globals
    /\ Returns(resultNone)
    /\ UNCHANGED <<host, hookOutputs, input, execSteps>>
    /\ hist' = Executed

RunBlockMarker ==
    /\ AtCommand({"ENDCATCH", "FUNC", "ENDFUNC"})
    /\ globals' = MapPut(globals, "RESULT", IntV(1))
    /\ Returns(resultNone)
    /\ UNCHANGED <<host, outputs, hookOutputs, input, execSteps>>
    /\ hist' = Executed

\* strings.HasPrefix(name, "TRY")
IsTry(name) == name \in TryCNames \cup {"TRYGOTO", "TRYCALL", "TRYJUMP"} \cup TryListNames

\* case "GOTO", "TRYGOTO", "TRYCGOTO": Arg is the label
RunCommandGoto ==
    /\ AtCommand({"GOTO", "TRYGOTO", "TRYCGOTO"})
    /\ IF CurStmt.Arg = ""
       THEN IF IsTry(CurStmt.Name) THEN Returns(handleTryFailure(CurStmt.Name))
            ELSE Returns(Errorf("without target"))
       ELSE IF IsTry(CurStmt.Name) /\ CurStmt.Arg \notin DOMAIN currentFrame.fn.Body.LabelMap
       THEN Returns(handleTryFailure(CurStmt.Name))
       ELSE Returns(resultGoto(CurStmt.Arg))
    /\ UNCHANGED <<host, globals, outputs, hookOutputs, input, execSteps>>
    /\ hist' = [Executed EXCEPT
                  !.gotoDepth = Len(stack),
                  !.badGoto = @ \/ (~IsTry(CurStmt.Name)
                                    /\ CurStmt.Arg \notin LabelsOf(currentFrame.fn.Body))]

\* the CALL and JUMP commands: Arg is the function
RunCommandCall ==
    /\ AtCommand({"TRYCALL", "TRYCCALL", "TRYCJUMP", "JUMP"})
    /\ IF CurStmt.Arg = "" \/ CurStmt.Arg \notin DOMAIN program.Functions
       THEN IF IsTry(CurStmt.Name) THEN Returns(handleTryFailure(CurStmt.Name))
            ELSE Returns(Errorf(IF CurStmt.Arg = "" THEN "without target"
                                ELSE "function not found"))
       ELSE callFunction(ctl, CurStmt.Arg)
    /\ UNCHANGED <<host, globals, outputs, hookOutputs, input, execSteps>>
    /\ hist' = Executed

\* The entries of a list, from the first one on, that pass the test
RECURSIVE firstEntry(_, _)
firstEntry(entries, exists) ==
    IF entries = <<>> THEN ""
    ELSE IF Head(entries) # "" /\ Head(entries) \in exists THEN Head(entries)
    ELSE firstEntry(Tail(entries), exists)

\* execCallListLike of a TRY*LIST command whose FUNC entries are indexed:
\* execTryListBlock, up to the call it makes
execTryListBlock ==
    /\ AtCommand(TryListNames)
    /\ execPC \in DOMAIN currentFlow.TryListFuncs
    /\ LET entries   == currentFlow.TryListFuncs[execPC]
           hasEnd    == execPC \in DOMAIN currentFlow.TryListEnd
           endIdx    == IF hasEnd THEN currentFlow.TryListEnd[execPC] ELSE 0
           skipToEnd == IF hasEnd THEN resultJumpIndex(endIdx) ELSE resultNone
           label     == firstEntry(entries, DOMAIN currentFrame.fn.Body.LabelMap)
           target    == firstEntry(entries, DOMAIN program.Functions)
       IN  /\ IF CurStmt.Name = "TRYGOTOLIST"
              THEN IF label # "" THEN Returns(resultGoto(label)) ELSE Returns(skipToEnd)
              ELSE IF target # ""
              THEN callFunction(Append(ctl, [fn |-> "execTryListBlock", hasEnd |-> hasEnd,
                                             endIdx |-> endIdx]), target)
              ELSE Returns(skipToEnd)
           /\ hist' = [Executed EXCEPT
                         !.gotoDepth = Len(stack),
                         !.dispatch = IF CurStmt.Name = "TRYGOTOLIST"
                                      THEN IF label # "" THEN <<label>> ELSE <<>>
                                      ELSE IF target # "" THEN <<target>> ELSE <<>>]
    /\ UNCHANGED <<host, globals, outputs, hookOutputs, input, execSteps>>

\* execTryListBlock: the function it called returned (res, err)
execTryListBlockResult ==
    /\ phase = "ret"
    /\ ctl # <<>>
    /\ Top.fn = "execTryListBlock"
    /\ ctl' = Caller
    /\ phase' = "ret"
    /\ res' = IF res.err = "" /\ Top.hasEnd /\ res.kind = "resultNone"
              THEN resultJumpIndex(Top.endIdx)
              ELSE res
    /\ UNCHANGED <<host, stack, execThunk, execPC, globals, outputs, hookOutputs, input, execSteps, hist>>

----------------------------------------------------------------------------
(* Input: resolveInput, execInputIntLike, execWaitLike *)

InputRequest(command, numeric, timed) ==
    [Command |-> command, Numeric |-> numeric, OneInput |-> FALSE, Timed |-> timed,
     TimeoutMs |-> 0, Countdown |-> FALSE, Nullable |-> FALSE, HasDefault |-> FALSE,
     DefaultValue |-> IntV(0), TimeoutMessage |-> <<>>]

\* What an input provider may return: (value, timeout, err)
ProviderAnswers ==
    { [value |-> <<"3">>, timeout |-> FALSE, err |-> ""],
      [value |-> <<>>, timeout |-> TRUE, err |-> ""],
      [value |-> <<>>, timeout |-> FALSE, err |-> "cancelled"] }

\* maybeEchoInput(req.TimeoutMessage) when there is a message
timeoutEcho(req) ==
    IF req.TimeoutMessage # <<>> THEN <<Output(req.TimeoutMessage, TRUE)>> ELSE <<>>

\* consumeQueuedInput that takes the newest queued value instead of the oldest
consumeQueuedInputNewest(queue) ==
    [v |-> queue[Len(queue)], rest |-> SubSeq(queue, 1, Len(queue) - 1)]

\* consumeQueuedInput on a queue that is not empty: the value and the rest
consumeQueuedInput(queue) == [v |-> Head(queue), rest |-> Tail(queue)]

\* resolveInput that asks an attached provider before it looks at the queue
resolveInputProviderFirst(req, ans) ==
    IF inputProvider
    THEN [raw |-> IF ans.err = "" THEN ans.value ELSE <<>>,
          timeout |-> ans.err = "" /\ ans.timeout, err |-> ans.err,
          echo |-> IF ans.err = "" /\ ans.timeout THEN timeoutEcho(req) ELSE <<>>,
          queue |-> input.Queue, by |-> "provider"]
    ELSE IF input.Queue # <<>>
    THEN [raw |-> Head(input.Queue), timeout |-> FALSE, err |-> "", echo |-> <<>>,
          queue |-> Tail(input.Queue), by |-> "queue"]
    ELSE [raw |-> IF req.HasDefault THEN String(req.DefaultValue) ELSE <<>>,
          timeout |-> req.Timed, err |-> "",
          echo |-> IF req.Timed THEN timeoutEcho(req) ELSE <<>>,
          queue |-> <<>>, by |-> "default"]

\* resolveInput(req) when the provider, if it is asked, returns ans:
\* (raw, timeout, err), the outputs echoed, the queue left, and who answered
resolveInput(req, ans) ==
    IF input.Queue # <<>>
    THEN [raw |-> consumeQueuedInput(input.Queue).v, timeout |-> FALSE, err |-> "",
          echo |-> <<>>, queue |-> consumeQueuedInput(input.Queue).rest, by |-> "queue"]
    ELSE IF inputProvider
    THEN IF ans.err # ""
         THEN [raw |-> <<>>, timeout |-> FALSE, err |-> ans.err, echo |-> <<>>,
               queue |-> <<>>, by |-> "provider"]
         ELSE [raw |-> ans.value, timeout |-> ans.timeout, err |-> "",
               echo |-> IF ans.timeout THEN timeoutEcho(req) ELSE <<>>,
               queue |-> <<>>, by |-> "provider"]
    ELSE IF req.Timed
    THEN [raw |-> IF req.HasDefault THEN String(req.DefaultValue) ELSE <<>>,
          timeout |-> TRUE, err |-> "", echo |-> timeoutEcho(req),
          queue |-> <<>>, by |-> "default"]
    ELSE [raw |-> IF req.HasDefault THEN String(req.DefaultValue) ELSE <<>>,
          timeout |-> FALSE, err |-> "", echo |-> <<>>,
          queue |-> <<>>, by |-> "default"]

\* finishInputRequest(raw, timeout), after consumeQueuedInput
finishInputRequest(r) ==
    [Phase |-> "idle", Current |-> <<>>, Queue |-> r.queue,
     LastValue |-> r.raw, LastTimeout |-> r.timeout]

\* A part of a command's argument list that is there and not blank
HasPart(parts, i) == Len(parts) >= i /\ parts[i].e # "blank"

\* The request that execInputIntLike builds from the command and its argument
inputIntRequest(name, parts) ==
    LET timed == name \in {"TINPUT", "TONEINPUT"}
        req   == InputRequest(name, TRUE, timed)
    IN  IF ~timed
        THEN IF HasPart(parts, 1)
             THEN [req EXCEPT !.HasDefault = TRUE,
                              !.DefaultValue = IntV(Int64(evalExpr(parts[1])))]
             ELSE req
        ELSE [req EXCEPT
                !.TimeoutMs = IF HasPart(parts, 1) THEN Int64(evalExpr(parts[1])) ELSE 0,
                !.HasDefault = HasPart(parts, 2),
                !.DefaultValue = IF HasPart(parts, 2)
                                 THEN IntV(Int64(evalExpr(parts[2]))) ELSE IntV(0),
                !.Countdown = IF HasPart(parts, 3)
                              THEN Int64(evalExpr(parts[3])) # 0 ELSE TRUE,
                !.TimeoutMessage = IF HasPart(parts, 4)
                                   THEN String(evalExpr(parts[4])) ELSE <<>>]

\* inputIntValue that takes an empty answer as 0 whatever the default
inputIntValueNoDefault(req, raw) ==
    IF raw = <<>> THEN 0
    ELSE IF parseIntInput(raw).ok THEN parseIntInput(raw).n
    ELSE IF req.HasDefault THEN Int64(req.DefaultValue) ELSE 0

\* The number execInputIntLike makes of the raw answer
inputIntValue(req, raw) ==
    LET def == IF req.HasDefault THEN Int64(req.DefaultValue) ELSE 0
    IN  IF raw = <<>> THEN def
        ELSE IF parseIntInput(raw).ok THEN parseIntInput(raw).n ELSE def

NoAnswer == [value |-> <<>>, timeout |-> FALSE, err |-> ""]

\* One entry of the history of input requests
InputEvent(req, r, asked) ==
    [req |-> req, raw |-> r.raw, timeout |-> r.timeout, err |-> r.err, by |-> r.by,
     queue |-> input.Queue, provider |-> inputProvider,
     answer |-> IF r.by = "provider" THEN asked ELSE NoAnswer]

\* case "INPUT", "TINPUT": execInputIntLike
execInputIntLike ==
    /\ AtCommand({"INPUT", "TINPUT"})
    /\ \E ans \in ProviderAnswers :
         LET req == inputIntRequest(CurStmt.Name, CurStmt.Exprs)
             r   == resolveInput(req, ans)
             n   == inputIntValue(req, r.raw)
         IN  /\ input' = finishInputRequest(r)
             /\ execSteps' = 0
             /\ hist' = [Executed EXCEPT !.inputs = Append(@, InputEvent(req, r, ans))]
             /\ IF r.err # ""
                THEN /\ Returns(Errorf(r.err))
                     /\ UNCHANGED <<globals, outputs, hookOutputs>>
                ELSE /\ globals' = MapPut(globals, "RESULT", IntV(n))
                     /\ outputs' = emitOutput(outputs \o r.echo, Output(FormatInt(n), TRUE))
                     /\ hookOutputs' = emitOutput(hookOutputs \o r.echo,
                                                  Output(FormatInt(n), TRUE))
                     /\ Returns(resultNone)
    /\ UNCHANGED host

\* case "WAIT": execWaitLike
execWaitLike ==
    /\ AtCommand({"WAIT"})
    /\ \E ans \in ProviderAnswers :
         LET req == InputRequest(CurStmt.Name, FALSE, FALSE)
             r   == resolveInput(req, ans)
         IN  /\ input' = finishInputRequest(r)
             /\ execSteps' = 0
             /\ hist' = [Executed EXCEPT !.inputs = Append(@, InputEvent(req, r, ans))]
             /\ outputs' = outputs \o r.echo
             /\ hookOutputs' = hookOutputs \o r.echo
             /\ IF r.err # ""
                THEN /\ Returns(Errorf(r.err))
                     /\ UNCHANGED globals
                ELSE /\ globals' = MapPut(globals, "RESULT", IntV(1))
                     /\ Returns(resultNone)
    /\ UNCHANGED host

----------------------------------------------------------------------------
(* The interpreter *)

Next ==
    \/ EnqueueInput
    \/ SetInputProvider
    \/ Run
    \/ RunResult
    \/ runThunkEnd
    \/ runThunkResult
    \/ callFunctionReturn
    \/ RunPrintStmt
    \/ RunAssignStmt
    \/ evalCallExprResult
    \/ RunIfStmt
    \/ RunRepeatStmt
    \/ RepeatStmtResult
    \/ RunForStmt
    \/ ForStmtResult
    \/ RunGotoStmt
    \/ RunCallStmt
    \/ RunReturnStmt
    \/ RunBeginStmt
    \/ RunQuitStmt
    \/ RunBreakStmt
    \/ RunCommandPrint
    \/ RunCatch
    \/ RunClear
    \/ RunBlockMarker
    \/ RunCommandGoto
    \/ RunCommandCall
    \/ execTryListBlock
    \/ execTryListBlockResult
    \/ execInputIntLike
    \/ execWaitLike

Spec == Init /\ [][Next]_vars

----------------------------------------------------------------------------
(* Control flow: GOTO, BEGIN and QUIT, events *)

\* runThunk is about to take the goto it was handed to a label of its thunk
GotoResolved ==
    /\ phase = "ret"
    /\ ctl # <<>>
    /\ Top.fn = "runThunk"
    /\ res.err = ""
    /\ res.kind = "resultGoto"
    /\ res.label \in DOMAIN Top.thunk.LabelMap

\* C1: a GOTO L run in a frame whose function body has no label L makes the
\* run fail with an error, and no goto is ever taken to a label of the body
\* of a calling function: a goto is resolved only in the frame that issued it.
C1_GotoStaysInFrame ==
    /\ GotoResolved => Len(stack) = hist.gotoDepth
    /\ (phase = "done" /\ hist.badGoto) => runResult.err # ""

\* C2: once a BEGIN or a QUIT has been run, at any depth, no statement runs
\* until Run has the result: every function on the way hands the Begin or
\* Quit result on unchanged, and Run starts the target or ends.
C2_BeginQuitPropagate ==
    hist.leaving => /\ phase = "ret"
                    /\ res.err = ""
                    /\ res.kind \in {"resultBegin", "resultQuit"}

\* The definitions of an event in the order the parser sorted them
EventDecls(name) ==
    LET fns == ParseERB(files).EventFunctions[name]
    IN  [i \in 1..Len(fns) |-> fns[i].Decl]

\* C3: when BEGIN reaches an event, every function defined under the event's
\* name is run, those with #PRI first: at the end of the run the definitions
\* run for the event are all its definitions in priority order.
C3_EventHandlersAllRun ==
    (phase = "done" /\ runResult.err = "" /\ hist.event # "")
        => hist.evRan = EventDecls(hist.event)

----------------------------------------------------------------------------
(* TRYC* ... CATCH ... ENDCATCH and TRY*LIST ... FUNC ... ENDFUNC *)

\* The thunks that runThunk is running in the current frame, innermost first
RECURSIVE frameThunks(_)
frameThunks(c) ==
    IF c = <<>> \/ c[Len(c)].fn = "callFunction" THEN {}
    ELSE (IF c[Len(c)].fn = "runThunk" THEN {c[Len(c)].thunk} ELSE {})
         \cup frameThunks(SubSeq(c, 1, Len(c) - 1))

\* A plain GOTO label run here would be taken by a runThunk of this frame
GotoWouldResolve(label) == \E t \in frameThunks(ctl) : label \in DOMAIN t.LabelMap

\* The function or the label that a TRY* command names is there
TargetExists(name, target) ==
    /\ target # ""
    /\ IF name \in {"TRYCGOTO", "TRYGOTO", "TRYGOTOLIST"} THEN GotoWouldResolve(target)
       ELSE target \in DOMAIN program.Functions

\* runThunk has the result of the command at Top.pc, one of names
AtReturnOf(names) ==
    /\ phase = "ret"
    /\ ctl # <<>>
    /\ Top.fn = "runThunk"
    /\ CurStmt.op = "CommandStmt"
    /\ CurStmt.Name \in names

TopFlow == buildFlowForThunk(Top.thunk)

\* The TRYC* commands of the thunk that have a CATCH with an ENDCATCH
PairedTryC ==
    {t \in DOMAIN TopFlow.TryCatch : TopFlow.TryCatch[t] \in DOMAIN TopFlow.CatchEnd}

\* C4: for a TRYCCALL/TRYCJUMP/TRYCGOTO with CATCH ... ENDCATCH: when the target
\* is not there the command hands runThunk the statement just after CATCH;
\* a statement of the catch body is run only when the target is not there;
\* and CATCH, reached from the protected statements, goes to ENDCATCH.
C4_TryCatch ==
    /\ (AtReturnOf(TryCNames) /\ Top.pc \in PairedTryC
        /\ ~TargetExists(CurStmt.Name, CurStmt.Arg))
          => res = resultJumpIndex(TopFlow.TryCatch[Top.pc] + 1)
    /\ AtStatement =>
          \A t \in PairedTryC :
             (TopFlow.TryCatch[t] < Top.pc /\ Top.pc < TopFlow.CatchEnd[TopFlow.TryCatch[t]])
                => ~TargetExists(Top.thunk.Statements[t + 1].Name,
                                 Top.thunk.Statements[t + 1].Arg)
    /\ (AtReturnOf({"CATCH"}) /\ Top.pc \in DOMAIN TopFlow.CatchEnd)
          => res = resultJumpIndex(TopFlow.CatchEnd[Top.pc])

\* The first FUNC entry of the list at Top.pc whose target is there, or ""
FirstExisting ==
    LET entries == TopFlow.TryListFuncs[Top.pc]
    IN  firstEntry(entries, {entries[i] : i \in {j \in 1..Len(entries) :
                                                  TargetExists(CurStmt.Name, entries[j])}})

\* C5: a TRYCALLLIST/TRYJUMPLIST/TRYGOTOLIST dispatches the first of its FUNC
\* entries whose target is there and no other, and a function it called having
\* returned, goes to ENDFUNC; when no target is there it dispatches nothing,
\* raises no error and goes to ENDFUNC.
C5_TryListFirstExisting ==
    (AtReturnOf(TryListNames) /\ Top.pc \in DOMAIN TopFlow.TryListFuncs
     /\ Top.pc \in DOMAIN TopFlow.TryListEnd)
      => IF FirstExisting = ""
         THEN hist.dispatch = <<>> /\ res = resultJumpIndex(TopFlow.TryListEnd[Top.pc])
         ELSE /\ hist.dispatch = <<FirstExisting>>
              /\ (res.err = "" /\ res.kind \in {"resultNone", "resultJumpIndex"})
                    => res = resultJumpIndex(TopFlow.TryListEnd[Top.pc])

----------------------------------------------------------------------------
(* RETURN and RESULT *)

----------------------------------------------------------------------------
(* Input *)

\* C7: the i-th input operation of a run receives the i-th value of the queue
\* that was supplied through EnqueueInput, for every i up to the length of
\* the queue: nothing is skipped, duplicated or reordered.
C7_QueueInOrder ==
    \A i \in 1..Len(hist.inputs) :
       i <= Len(hist.q0) => /\ hist.inputs[i].by = "queue"
                            /\ hist.inputs[i].raw = hist.q0[i]

\* Two input operations have taken two different queued values
C7_Witness ==
    /\ Len(hist.q0) >= 2
    /\ Len(hist.inputs) >= 2
    /\ hist.q0[1] # hist.q0[2]

\* The default of a request as text, "" when it has none
DefaultText(req) == IF req.HasDefault THEN String(req.DefaultValue) ELSE <<>>

\* C8: an input request is resolved by the first rule that applies: the head
\* of a queue that is not empty, without timeout and without asking the
\* provider; else the answer of the provider; else, with no provider, the
\* default with timeout for a timed request, the default without timeout for
\* an untimed request that has one, and ("", false) otherwise.
C8_ResolveOrder ==
    \A i \in 1..Len(hist.inputs) :
       LET e == hist.inputs[i]
       IN  IF e.queue # <<>>
           THEN e.by = "queue" /\ e.raw = Head(e.queue) /\ ~e.timeout /\ e.err = ""
           ELSE IF e.provider
           THEN /\ e.by = "provider"
                /\ e.err = e.answer.err
                /\ e.err = "" => (e.raw = e.answer.value /\ e.timeout = e.answer.timeout)
           ELSE /\ e.by = "default"
                /\ e.err = ""
                /\ e.raw = DefaultText(e.req)
                /\ e.timeout = e.req.Timed

\* A run in which the queue answered one request and, the queue empty and no
\* provider attached, a timed request without default was answered ("", true)
C8_Witness ==
    /\ Len(hist.inputs) >= 2
    /\ hist.inputs[1].by = "queue"
    /\ hist.inputs[2].by = "default"
    /\ hist.inputs[2].timeout
    /\ hist.inputs[2].raw = <<>>

\* strings.HasSuffix(name, "W") of a PRINT* command
IsPrintW(name) == name \in {"PRINTW", "PRINTVW"}

RunOf(script) == program.Functions["TITLE"].Body = parseThunk(script)

\* C9: a PRINT* command whose name ends in W waits after its output, and the
\* wait takes one value off a queue that is not empty; with the queue ["7"]
\* the script PRINTW hello / INPUT / PRINTVL RESULT ends by printing 0.
C9_PrintWConsumesInput ==
    /\ (AtReturnOf({n \in PrintCommands : IsPrintW(n)}) /\ hist.qBefore # <<>>)
          => input.Queue = Tail(hist.qBefore)
    /\ (phase = "done" /\ RunOf(PrintWScript) /\ hist.q0 = << <<"7">> >>)
          => outputs[Len(outputs)].Text = <<"0">>

\* The texts of the outputs
Texts == [i \in 1..Len(outputs) |-> outputs[i].Text]

\* The run of the INPUT 5 / TINPUT 10, 42, 1, "timeout" script with the
\* queue ["12", ""] is over
InputDefaultRunDone ==
    /\ phase = "done"
    /\ RunOf(InputDefaultScript)
    /\ hist.q0 = << <<"1", "2">>, <<>> >>

\* C10 as the specification states it: the run prints 12 and then 42, and the
\* message "timeout" is among the outputs before the 42.
C10_TimeoutMessageEmitted ==
    InputDefaultRunDone =>
       \E i, j, k \in 1..Len(outputs) :
          /\ i < j /\ j < k
          /\ Texts[i] = <<"1", "2">>
          /\ Texts[j] = W("timeout")
          /\ Texts[k] = <<"4", "2">>

\* C10: the run prints 12 and then 42, each after the echo of the value the
\* input command took, and nothing else: the queued "" answers the TINPUT
\* without timeout, so no timeout message is emitted.
C10_PrintsDefaultNoMessage ==
    InputDefaultRunDone =>
       /\ runResult.err = ""
       /\ Texts = << <<"1", "2">>, <<"1", "2">>, <<"4", "2">>, <<"4", "2">> >>
       /\ ~input.LastTimeout

C10_Witness == InputDefaultRunDone /\ Len(outputs) = 4

----------------------------------------------------------------------------
(* Cancellation by the input provider *)

\* The provider returned an error to some input request of the run
Cancelled == \E i \in 1..Len(hist.inputs) : hist.inputs[i].err # ""

\* C11: once the input provider has returned an error to a pending INPUT or
\* WAIT, at whatever call depth, the error is on its way to Run or Run has
\* returned it with every frame popped: no statement runs after it, and no
\* TRY* construct and no expression takes the error away.
C11_CancellationEndsRun ==
    Cancelled =>
        \/ phase = "ret" /\ res.err = "cancelled"
        \/ phase = "done" /\ runResult.err = "cancelled" /\ stack = <<>>

----------------------------------------------------------------------------
(* What the host gets of a failed run *)

\* The result record of the web and mobile bridges, made of what Run returned
bridgeResult ==
    [Outputs |-> IF runResult.err # "" THEN <<>> ELSE runResult.outputs,
     Error |-> runResult.err]

\* C12: when a run has failed at runtime, what Run returned and the result
\* record of the bridges hold every output emitted before the failure,
\* together with the error.
C12_FailedRunKeepsOutputs ==
    (phase = "done" /\ runResult.err # "")
        => /\ runResult.outputs = outputs
           /\ bridgeResult.Outputs = outputs
           /\ bridgeResult.Error = runResult.err

----------------------------------------------------------------------------
(* The output hook *)

\* C13: at every point of a run, what the output hook has been handed is the
\* interpreter's own outputs sequence: an output is appended once and
\* mirrored once, in the same order, and no command changes one of the two
\* sequences without the other.
C13_HookMirrorsOutputs == hookOutputs = outputs

----------------------------------------------------------------------------
(* The terminal front-end: startVM, runVM, waitVMEvent, Update *)

MaxStarts == 2         \* most interpreters started: by Init and by the r key

\* The capacity of the events channel
EventsCap == 256

\* What the interpreter of a run does with its output hook and its input
\* provider, in order; the configuration names the game, so every start runs
\* the same steps
\* ("tprompt" is a prompt of a timed request)
FrontScripts ==
    { <<"out", "out", "prompt", "out">>, <<"prompt", "out", "out">>, <<"tprompt", "out">> }

\* The variables of the interpreter, which the front-end reaches only through
\* the hook and the provider
interp == <<files, program, hostInputs, phase, current, stack, ctl, res, execThunk,
            execPC, globals, outputs, hookOutputs, input, inputProvider, runResult, hist,
            datastore, execSteps, form, array, arrayHist>>

\* A tea.Msg: vmStartedMsg of run vm, vmOutputMsg of the n-th output of run
\* vm, vmPromptMsg of run vm asked after n outputs, vmDoneMsg, vmPollMsg,
\* vmTimeoutMsg{seq: n}. For the properties a vmPromptMsg carries the step
\* of its run that asked, and a vmTimeoutMsg the run and the step of the
\* prompt it was scheduled for
Msg(t, vm, n) == [t |-> t, vm |-> vm, n |-> n, at |-> 0]

PromptMsg(vm, n, at) == [Msg("vmPromptMsg", vm, n) EXCEPT !.at = at]

TimeoutMsg(vm, seq, at) == [Msg("vmTimeoutMsg", vm, seq) EXCEPT !.at = at]

NoMsg == Msg("none", 0, 0)

\* A tea.Cmd in flight: its function has not returned a message yet
Cmd(kind, ch) == [kind |-> kind, ch |-> ch, msg |-> NoMsg, tick |-> NoMsg]

\* timeoutCmd(seq, d): the tick that returns vmTimeoutMsg{seq}
timeoutCmd(tick) == <<[Cmd("timeout", tick.n) EXCEPT !.tick = tick]>>

\* vmInputResp{value, timeout}, with the tick that sent it
vmInputResp(timeout, tick) == [timeout |-> timeout, tick |-> tick]

\* req.Timed of the request a prompt of run vm at step at carries
Timed(vm, at) == vmRuns[vm].steps[at] = "tprompt"

startVM == <<Cmd("startVM", 0)>>

waitVMEvent(events) == IF events = 0 THEN <<>> ELSE <<Cmd("wait", events)>>

RemoveAt(s, i) == SubSeq(s, 1, i - 1) \o SubSeq(s, i + 1, Len(s))

\* The program starts: newModel, and Init returns startVM
InitFrontend ==
    /\ files = <<>>
    /\ program = ParseProgram(files)
    /\ hostInputs = <<>>
    /\ phase = "idle"
    /\ current = ""
    /\ stack = <<>>
    /\ ctl = <<>>
    /\ res = resultNone
    /\ execThunk = EmptyThunk
    /\ execPC = -1
    /\ globals = EmptyMap
    /\ outputs = <<>>
    /\ hookOutputs = <<>>
    /\ input = defaultInputState
    /\ inputProvider = FALSE
    /\ runResult = [outputs |-> <<>>, err |-> ""]
    /\ hist = NoHist
    /\ vmRuns = <<>>
    /\ cmds = startVM
    /\ \E script \in FrontScripts : model = [newModel EXCEPT !.cfg = script]
    /\ gArrays = EmptyMap
    /\ gRefs = EmptyMap
    /\ characters = <<>>
    /\ saved = <<>>
    /\ storeHist = NoStoreHist
    /\ datFiles = NoDatFiles
    /\ execSteps = 0
    /\ form = NoForm
    /\ array = NoArray
    /\ arrayHist = NoArrayHist

\* startVM's function: make the events channel, go runVM, return vmStartedMsg
StartVMRuns ==
    \E i \in 1..Len(cmds) :
        /\ cmds[i].kind = "startVM" /\ cmds[i].msg = NoMsg
        /\ vmRuns' = Append(vmRuns, [steps |-> model.cfg, pc |-> 1, emitted |-> 0,
                                     events |-> <<>>, asked |-> FALSE, resp |-> <<>>,
                                     closed |-> FALSE])
        /\ cmds' = [cmds EXCEPT ![i].msg = Msg("vmStartedMsg", Len(vmRuns) + 1, 0)]
        /\ UNCHANGED <<interp, model>>

\* runVM, the output hook: events <- vmOutputMsg{out}
OutputHook ==
    \E v \in 1..Len(vmRuns) :
        LET r == vmRuns[v]
        IN  /\ r.pc <= Len(r.steps) /\ r.steps[r.pc] = "out"
            /\ Len(r.events) < EventsCap
            /\ vmRuns' = [vmRuns EXCEPT ![v] =
                            [r EXCEPT !.pc = @ + 1, !.emitted = @ + 1,
                                      !.events = Append(@, Msg("vmOutputMsg", v,
                                                               r.emitted + 1))]]
            /\ UNCHANGED <<interp, cmds, model>>

\* runVM, the input provider: events <- vmPromptMsg{req, resp}
InputProviderAsks ==
    \E v \in 1..Len(vmRuns) :
        LET r == vmRuns[v]
        IN  /\ r.pc <= Len(r.steps) /\ r.steps[r.pc] \in {"prompt", "tprompt"} /\ ~r.asked
            /\ Len(r.events) < EventsCap
            /\ vmRuns' = [vmRuns EXCEPT ![v] =
                            [r EXCEPT !.asked = TRUE,
                                      !.events = Append(@, PromptMsg(v, r.emitted,
                                                                     r.pc))]]
            /\ UNCHANGED <<interp, cmds, model>>

\* runVM, the input provider: r := <-resp
InputProviderReturns ==
    \E v \in 1..Len(vmRuns) :
        LET r == vmRuns[v]
        IN  /\ r.asked /\ r.resp # <<>>
            /\ vmRuns' = [vmRuns EXCEPT ![v] =
                            [r EXCEPT !.asked = FALSE, !.resp = <<>>, !.pc = @ + 1]]
            /\ UNCHANGED <<interp, cmds, model>>

\* runVM, the end: events <- vmDoneMsg{err}, and the deferred close(events)
RunVMDone ==
    \E v \in 1..Len(vmRuns) :
        LET r == vmRuns[v]
        IN  /\ r.pc > Len(r.steps) /\ ~r.closed
            /\ Len(r.events) < EventsCap
            /\ vmRuns' = [vmRuns EXCEPT ![v] =
                            [r EXCEPT !.closed = TRUE,
                                      !.events = Append(@, Msg("vmDoneMsg", v, 0))]]
            /\ UNCHANGED <<interp, cmds, model>>

\* waitVMEvent's function: case msg, ok := <-events with a message there
WaitReceives ==
    \E i \in 1..Len(cmds) :
        /\ cmds[i].kind = "wait" /\ cmds[i].msg = NoMsg
        /\ vmRuns[cmds[i].ch].events # <<>>
        /\ cmds' = [cmds EXCEPT ![i].msg = Head(vmRuns[cmds[i].ch].events)]
        /\ vmRuns' = [vmRuns EXCEPT ![cmds[i].ch].events = Tail(@)]
        /\ UNCHANGED <<interp, model>>

\* waitVMEvent's function: case <-time.After(20 * time.Millisecond)
WaitTimesOut ==
    \E i \in 1..Len(cmds) :
        /\ cmds[i].kind = "wait" /\ cmds[i].msg = NoMsg
        /\ vmRuns[cmds[i].ch].events = <<>> /\ ~vmRuns[cmds[i].ch].closed
        /\ cmds' = [cmds EXCEPT ![i].msg = Msg("vmPollMsg", 0, 0)]
        /\ UNCHANGED <<interp, vmRuns, model>>

\* waitVMEvent's function: the channel is closed, the message is nil
WaitClosed ==
    \E i \in 1..Len(cmds) :
        /\ cmds[i].kind = "wait" /\ cmds[i].msg = NoMsg
        /\ vmRuns[cmds[i].ch].events = <<>> /\ vmRuns[cmds[i].ch].closed
        /\ cmds' = RemoveAt(cmds, i)
        /\ UNCHANGED <<interp, vmRuns, model>>

\* Update, case vmStartedMsg
UpdateStarted ==
    \E i \in 1..Len(cmds) :
        /\ cmds[i].msg.t = "vmStartedMsg"
        /\ model' = [model EXCEPT !.events = cmds[i].msg.vm, !.running = TRUE]
        /\ cmds' = RemoveAt(cmds, i) \o waitVMEvent(cmds[i].msg.vm)
        /\ UNCHANGED <<interp, vmRuns>>

\* Update, case vmOutputMsg: appendOutput
UpdateOutput ==
    \E i \in 1..Len(cmds) :
        /\ cmds[i].msg.t = "vmOutputMsg"
        /\ model' = [model EXCEPT !.stream = Append(@, cmds[i].msg)]
        /\ cmds' = RemoveAt(cmds, i) \o waitVMEvent(model.events)
        /\ UNCHANGED <<interp, vmRuns>>

\* Update, case vmPollMsg
UpdatePoll ==
    \E i \in 1..Len(cmds) :
        /\ cmds[i].msg.t = "vmPollMsg"
        /\ cmds' = RemoveAt(cmds, i)
                   \o IF model.running /\ model.pending = <<>>
                      THEN waitVMEvent(model.events) ELSE <<>>
        /\ UNCHANGED <<interp, vmRuns, model>>

\* Update, case vmPromptMsg: a timed request schedules its timeout tick
UpdatePrompt ==
    \E i \in 1..Len(cmds) :
        /\ cmds[i].msg.t = "vmPromptMsg"
        /\ model' = [model EXCEPT !.seq = @ + 1,
                                  !.pending = <<[resp |-> cmds[i].msg.vm,
                                                 asked |-> cmds[i].msg.n,
                                                 seq |-> model.seq + 1,
                                                 at |-> cmds[i].msg.at]>>]
        /\ cmds' = RemoveAt(cmds, i)
                   \o IF Timed(cmds[i].msg.vm, cmds[i].msg.at)
                      THEN timeoutCmd(TimeoutMsg(cmds[i].msg.vm, model.seq + 1,
                                                 cmds[i].msg.at))
                      ELSE <<>>
        /\ UNCHANGED <<interp, vmRuns>>

\* timeoutCmd's tick: the duration has passed
TimeoutFires ==
    \E i \in 1..Len(cmds) :
        /\ cmds[i].kind = "timeout" /\ cmds[i].msg = NoMsg
        /\ cmds' = [cmds EXCEPT ![i].msg = cmds[i].tick]
        /\ UNCHANGED <<interp, vmRuns, model>>

\* Update, case vmTimeoutMsg: the pending request of that seq, if timed, is
\* answered with a timeout
UpdateTimeout ==
    \E i \in 1..Len(cmds) :
        /\ cmds[i].msg.t = "vmTimeoutMsg"
        /\ IF /\ model.pending # <<>>
              /\ model.pending[1].seq = cmds[i].msg.n
              /\ Timed(model.pending[1].resp, model.pending[1].at)
           THEN /\ vmRuns' = [vmRuns EXCEPT ![model.pending[1].resp].resp =
                                 <<vmInputResp(TRUE, cmds[i].msg)>>]
                /\ model' = [model EXCEPT !.pending = <<>>]
                /\ cmds' = RemoveAt(cmds, i) \o waitVMEvent(model.events)
           ELSE /\ cmds' = RemoveAt(cmds, i)
                /\ UNCHANGED <<vmRuns, model>>
        /\ UNCHANGED interp

\* Update, case vmDoneMsg with no error
UpdateDone ==
    \E i \in 1..Len(cmds) :
        /\ cmds[i].msg.t = "vmDoneMsg"
        /\ model' = [model EXCEPT !.running = FALSE, !.pending = <<>>]
        /\ cmds' = RemoveAt(cmds, i)
        /\ UNCHANGED <<interp, vmRuns>>

\* Update, case tea.KeyMsg while an input is pending: the key that answers
\* (any key for a wait, Enter otherwise); sendInputResp leaves one response
\* in the channel
KeyAnswers ==
    /\ model.pending # <<>>
    /\ vmRuns' = [vmRuns EXCEPT ![model.pending[1].resp].resp =
                     <<vmInputResp(FALSE, NoMsg)>>]
    /\ model' = [model EXCEPT !.pending = <<>>]
    /\ cmds' = cmds \o waitVMEvent(model.events)
    /\ UNCHANGED interp

\* Update, case tea.KeyMsg "r" while no input is pending: clearForRestart and
\* startVM, unless m.running
KeyRestart ==
    /\ model.pending = <<>>
    /\ ~model.running
    /\ Len(vmRuns) + Cardinality({i \in 1..Len(cmds) : cmds[i] = Cmd("startVM", 0)})
          < MaxStarts
    /\ model' = [model EXCEPT !.stream = <<>>, !.pending = <<>>, !.seq = 0]
    /\ cmds' = cmds \o startVM
    /\ UNCHANGED <<interp, vmRuns>>

NextFrontend ==
    \/ StartVMRuns
    \/ OutputHook
    \/ InputProviderAsks
    \/ InputProviderReturns
    \/ RunVMDone
    \/ WaitReceives
    \/ WaitTimesOut
    \/ WaitClosed
    \/ UpdateStarted
    \/ UpdateOutput
    \/ UpdatePoll
    \/ UpdatePrompt
    \/ TimeoutFires
    \/ UpdateTimeout
    \/ UpdateDone
    \/ KeyAnswers
    \/ KeyRestart

SpecFrontend == InitFrontend /\ [][NextFrontend]_vars

\* What is shown is the outputs 1, 2, ... of one interpreter
ShownInOrder ==
    \A j \in 1..Len(model.stream) :
        model.stream[j] = Msg("vmOutputMsg", model.stream[1].vm, j)

\* While a prompt can be answered, everything its interpreter had emitted
\* when it asked is shown
PromptBehindOutputs ==
    model.pending # <<>> =>
        model.stream = [j \in 1..model.pending[1].asked |->
                          Msg("vmOutputMsg", model.pending[1].resp, j)]

\* C14: in the terminal front-end the outputs are shown in the order the
\* interpreter emitted them, and every output emitted before an input prompt
\* is shown before the prompt can be answered.
C14_FrontendShowsInOrder == ShownInOrder /\ PromptBehindOutputs

----------------------------------------------------------------------------
(* The statements on the variable store, the roster and SAVEGLOBAL *)

\* saveValue of a Value, and back, as saveGlobals and loadGlobals convert
valueToSaveValue(v) ==
    IF v.kind = "str" THEN [Kind |-> "string", I |-> 0, S |-> String(v)]
    ELSE [Kind |-> "int", I |-> Int64(v), S |-> <<>>]

saveValueToValue(sv) == IF sv.Kind = "string" THEN StrV(sv.S) ELSE IntV(sv.I)

\* The snapshot saveGlobals writes
saveSnapshot(g, arrays) ==
    [Globals |-> [k \in DOMAIN g |-> valueToSaveValue(g[k])],
     GArrays |-> [n \in DOMAIN arrays |->
                    [IsString |-> arrays[n].IsString,
                     Data |-> [i \in DOMAIN arrays[n].Data |->
                                 valueToSaveValue(arrays[n].Data[i])]]]]

\* loadGlobals: the globals of the snapshot over the globals of the VM
loadedGlobals(g, snap) ==
    [k \in DOMAIN g \cup DOMAIN snap.Globals |->
        IF k \in DOMAIN snap.Globals THEN saveValueToValue(snap.Globals[k]) ELSE g[k]]

\* loadGlobals: each array of the snapshot built again under its name
loadedArrays(arrays, snap) ==
    [n \in DOMAIN arrays \cup DOMAIN snap.GArrays |->
        IF n \in DOMAIN snap.GArrays
        THEN [IsString |-> snap.GArrays[n].IsString,
              Data |-> [i \in DOMAIN snap.GArrays[n].Data |->
                          saveValueToValue(snap.GArrays[n].Data[i])]]
        ELSE arrays[n]]

\* callFunction's assignArg for the target ARG:index
assignArg(arrays, index, v) ==
    LET arr == IF "ARG" \in DOMAIN arrays THEN arrays["ARG"]
               ELSE newArrayVar(v.kind = "str")
        kinded == IF v.kind = "str" THEN [arr EXCEPT !.IsString = TRUE] ELSE arr
    IN  MapPut(arrays, "ARG", ArraySet(kinded, index, v))

\* defaultValueForFuncArgTarget
defaultValueForFuncArgTarget(name) == IF isStringArrayBase(name) THEN StrV(<<>>) ELSE IntV(0)

\* The arguments of @F(ARG, ARG): normalizeFuncArgTarget gives each its position
FuncArgs == 2

\* callFunction's loop over fn.Args from argument i on
RECURSIVE bindArgs(_, _, _)
bindArgs(arrays, args, i) ==
    IF i >= FuncArgs THEN arrays
    ELSE bindArgs(assignArg(arrays, i, IF i < Len(args) THEN args[i + 1]
                                       ELSE defaultValueForFuncArgTarget("ARG")),
                  args, i + 1)

\* What the statements of the script assign, read, bind and pass
StoreValues == {IntV(7), StrV(<<"h">>)}
StoreTargets == {Ref("A", <<>>), Ref("A", <<3>>), Ref("S", <<1>>),
                 Ref("CHARANUM", <<>>), Ref("R", <<>>)}
RefSources == {Ref("A", <<>>), Ref("A", <<3>>), Ref("R", <<>>), Ref("R2", <<>>)}
CallArgs == {<<IntV(1), StrV(<<"h">>)>>, <<StrV(<<"h">>)>>, <<>>}

\* The last access under a name, and the store before it
Access(kind, ref, v, before) == <<[kind |-> kind, ref |-> ref, v |-> v, before |-> before]>>

\* The interpreter's variables the statements of this section leave alone
background == <<frontend, files, program, hostInputs, current, ctl, res, execThunk,
                execPC, hookOutputs, input, inputProvider, runResult, hist, execSteps>>

StoreBecomes(d) ==
    /\ globals' = d.globals
    /\ gArrays' = d.gArrays
    /\ stack' = d.stack
    /\ gRefs' = d.gRefs

CanStep == phase = "exec" /\ storeHist.ops < MaxOps

Stepped(h) == [h EXCEPT !.ops = @ + 1]

\* Run, up to the first statement: the roster is empty and counted
InitStore ==
    /\ files = <<>>
    /\ program = ParseProgram(files)
    /\ hostInputs = <<>>
    /\ phase = "exec"
    /\ current = ""
    /\ stack = <<>>
    /\ ctl = <<>>
    /\ res = resultNone
    /\ execThunk = EmptyThunk
    /\ execPC = -1
    /\ globals = refreshCharacterGlobals(initDefines.globals, <<>>)
    /\ outputs = <<>>
    /\ hookOutputs = <<>>
    /\ input = defaultInputState
    /\ inputProvider = FALSE
    /\ runResult = [outputs |-> <<>>, err |-> ""]
    /\ hist = NoHist
    /\ vmRuns = <<>>
    /\ cmds = <<>>
    /\ model = newModel
    /\ gArrays = initDefines.gArrays
    /\ gRefs = EmptyMap
    /\ characters = <<>>
    /\ saved = <<>>
    /\ storeHist = NoStoreHist
    /\ datFiles = NoDatFiles
    /\ execSteps = 0
    /\ form = NoForm
    /\ array = NoArray
    /\ arrayHist = NoArrayHist

\* AssignStmt with a value: target = v
StoreAssignValue ==
    /\ CanStep
    /\ \E target \in StoreTargets, v \in StoreValues :
         LET cur == getVarRef(Store, target)
             set == setVarRef(cur.d, target, v)
         IN  IF cur.ok /\ set.ok
             THEN /\ StoreBecomes(set.d)
                  /\ phase' = phase
                  /\ storeHist' = [Stepped(storeHist) EXCEPT
                                     !.last = Access("write", target, v, Store)]
             ELSE /\ phase' = "crashed"
                  /\ storeHist' = [Stepped(storeHist) EXCEPT
                                     !.last = Access("hang", target, v, Store)]
                  /\ UNCHANGED <<globals, gArrays, stack, gRefs>>
    /\ UNCHANGED <<background, outputs, characters, saved, datFiles>>

\* AssignStmt with a variable reference for a REF-declared name: name = source
StoreAssignRef ==
    /\ CanStep
    /\ \E name \in RefDecl, source \in RefSources :
         /\ isRefDeclared(name)
         /\ StoreBecomes(setRefBinding(Store, name, source))
         /\ storeHist' = [Stepped(storeHist) EXCEPT
                            !.bound = MapPut(@, name, source),
                            !.cleared = @ \ {name},
                            !.last = <<>>]
    /\ UNCHANGED <<background, phase, outputs, characters, saved, datFiles>>

\* PRINTV ref
StorePrintV ==
    /\ CanStep
    /\ \E ref \in {Ref("R", <<>>), Ref("A", <<>>), Ref("A", <<3>>), Ref("CHARANUM", <<>>)} :
         LET cur == getVarRef(Store, ref)
         IN  IF cur.ok
             THEN /\ StoreBecomes(cur.d)
                  /\ outputs' = <<String(cur.v)>>
                  /\ phase' = phase
                  /\ storeHist' = [Stepped(storeHist) EXCEPT
                                     !.last = Access("read", ref, cur.v, Store)]
             ELSE /\ phase' = "crashed"
                  /\ storeHist' = [Stepped(storeHist) EXCEPT
                                     !.last = Access("hang", ref, IntV(0), Store)]
                  /\ UNCHANGED <<globals, gArrays, stack, gRefs, outputs>>
    /\ UNCHANGED <<background, characters, saved, datFiles>>

\* CALL F, args: callFunction up to the body
StoreCall ==
    /\ CanStep
    /\ stack = <<>>
    /\ \E args \in CallArgs :
         stack' = <<[frame("F") EXCEPT !.lArrays = bindArgs(EmptyMap, args, 0)]>>
    /\ storeHist' = [Stepped(storeHist) EXCEPT !.last = <<>>]
    /\ UNCHANGED <<background, phase, globals, outputs, gArrays, gRefs, characters, saved, datFiles>>

\* callFunction once the body has run to its end
StoreReturn ==
    /\ CanStep
    /\ stack # <<>>
    /\ stack' = SubSeq(stack, 1, Len(stack) - 1)
    /\ storeHist' = [Stepped(storeHist) EXCEPT !.last = <<>>]
    /\ UNCHANGED <<background, phase, globals, outputs, gArrays, gRefs, characters, saved, datFiles>>

\* ADDCHARA 0
AddChara ==
    /\ CanStep
    /\ Len(characters) < MaxCharas
    /\ characters' = Append(characters, 0)
    /\ globals' = MapPut(refreshCharacterGlobals(globals, characters'),
                         "RESULT", IntV(Len(characters)))
    /\ storeHist' = [Stepped(storeHist) EXCEPT !.last = <<>>]
    /\ UNCHANGED <<background, phase, stack, outputs, gArrays, gRefs, saved, datFiles>>

\* DELCHARA 0
DelChara ==
    /\ CanStep
    /\ IF characters # <<>>
       THEN /\ characters' = Tail(characters)
            /\ globals' = MapPut(refreshCharacterGlobals(globals, characters'),
                                 "RESULT", IntV(1))
       ELSE /\ characters' = characters
            /\ globals' = MapPut(globals, "RESULT", IntV(0))
    /\ storeHist' = [Stepped(storeHist) EXCEPT !.last = <<>>]
    /\ UNCHANGED <<background, phase, stack, outputs, gArrays, gRefs, saved, datFiles>>

\* DELALLCHARA
DelAllChara ==
    /\ CanStep
    /\ characters' = <<>>
    /\ globals' = MapPut(refreshCharacterGlobals(globals, <<>>), "RESULT", IntV(1))
    /\ storeHist' = [Stepped(storeHist) EXCEPT !.last = <<>>]
    /\ UNCHANGED <<background, phase, stack, outputs, gArrays, gRefs, saved, datFiles>>

\* RESETGLOBAL
execResetGlobal ==
    /\ CanStep
    /\ globals' = MapPut(initDefines.globals, "RESULT", IntV(1))
    /\ gArrays' = initDefines.gArrays
    /\ gRefs' = EmptyMap
    /\ storeHist' = [Stepped(storeHist) EXCEPT
                       !.cleared = DOMAIN storeHist.bound, !.last = <<>>]
    /\ UNCHANGED <<background, phase, stack, outputs, characters, saved, datFiles>>

\* RESETDATA
execResetData ==
    /\ CanStep
    /\ characters' = <<>>
    /\ globals' = refreshCharacterGlobals(MapPut(initDefines.globals, "RESULT", IntV(1)),
                                          <<>>)
    /\ gArrays' = initDefines.gArrays
    /\ gRefs' = EmptyMap
    /\ storeHist' = [Stepped(storeHist) EXCEPT
                       !.cleared = DOMAIN storeHist.bound, !.last = <<>>]
    /\ UNCHANGED <<background, phase, stack, outputs, saved, datFiles>>

\* SAVEGLOBAL
SaveGlobal ==
    /\ CanStep
    /\ saved' = <<saveSnapshot(globals, gArrays)>>
    /\ globals' = MapPut(globals, "RESULT", IntV(1))
    /\ storeHist' = [Stepped(storeHist) EXCEPT !.last = <<>>]
    /\ UNCHANGED <<background, phase, stack, outputs, gArrays, gRefs, characters, datFiles>>

\* LOADGLOBAL
LoadGlobal ==
    /\ CanStep
    /\ IF saved = <<>>
       THEN /\ globals' = MapPut(globals, "RESULT", IntV(0))
            /\ gArrays' = gArrays
       ELSE /\ globals' = MapPut(loadedGlobals(globals, saved[1]), "RESULT", IntV(1))
            /\ gArrays' = loadedArrays(gArrays, saved[1])
    /\ storeHist' = [Stepped(storeHist) EXCEPT !.last = <<>>]
    /\ UNCHANGED <<background, phase, stack, outputs, gRefs, characters, saved, datFiles>>

\* initSaveIdentity: the code and the version of the game the VM runs
saveUniqueCode == 7

saveVersion == 1

\* What readVarBinaryData returns for a file: the header and the saved data
VarFile(unique, version, g, arrays) ==
    [unique |-> unique, version |-> version, globals |-> g, arrays |-> arrays]

\* What readCharaBinaryData returns for a file
CharaFile(unique, version, chars) ==
    [unique |-> unique, version |-> version, chars |-> chars]

\* collectVarSelection for the one selector name
collectVarSelection(d, name) ==
    IF name \in DOMAIN lArraysOf(d)
    THEN [globals |-> EmptyMap, arrays |-> MapPut(EmptyMap, name, lArraysOf(d)[name])]
    ELSE IF name \in DOMAIN d.gArrays
    THEN [globals |-> EmptyMap, arrays |-> MapPut(EmptyMap, name, d.gArrays[name])]
    ELSE [globals |-> MapPut(EmptyMap, name, getVarRef(d, Ref(name, <<>>)).v),
          arrays |-> EmptyMap]

\* execLoadVar's loop over the loaded globals, which hold at most one name
applyLoadedGlobals(d, g) ==
    IF DOMAIN g = {} THEN d
    ELSE LET k == CHOOSE n \in DOMAIN g : TRUE
         IN  setVarRef(d, Ref(k, <<>>), g[k]).d

\* execLoadVar's loop over the loaded arrays
applyLoadedArrays(d, arrays) ==
    [d EXCEPT !.gArrays = [n \in DOMAIN d.gArrays \cup DOMAIN arrays |->
                             IF n \in DOMAIN arrays THEN arrays[n] ELSE d.gArrays[n]]]

\* execLoadVar's loadFromData that applies the file whatever its header says
loadVarFromDataUnchecked(d, file) ==
    [err |-> "", d |-> applyLoadedArrays(applyLoadedGlobals(d, file.globals), file.arrays)]

\* execLoadVar's loadFromData for a binary file: the error and the store it leaves
loadVarFromData(d, file) ==
    IF file.unique # saveUniqueCode
    THEN [err |-> "SAVEVAR incompatible unique code", d |-> d]
    ELSE IF file.version # saveVersion
    THEN [err |-> "SAVEVAR incompatible version", d |-> d]
    ELSE [err |-> "", d |-> applyLoadedArrays(applyLoadedGlobals(d, file.globals),
                                               file.arrays)]

\* execLoadChara's loadFromData for a binary file: the error and the roster
loadCharaFromData(chars, file) ==
    IF file.unique # saveUniqueCode
    THEN [err |-> "SAVECHARA incompatible unique code", chars |-> chars]
    ELSE IF file.version # saveVersion
    THEN [err |-> "SAVECHARA incompatible version", chars |-> chars]
    ELSE [err |-> "", chars |-> chars \o file.chars]

\* The headers of the files another game, or another version of this game, writes
OtherIdentities ==
    {<<saveUniqueCode + 1, saveVersion>>, <<saveUniqueCode, saveVersion + 1>>,
     <<saveUniqueCode + 1, saveVersion + 1>>}

\* SAVEVAR "f", "m", A with the binary format chosen
execSaveVar ==
    /\ CanStep
    /\ LET sel == collectVarSelection(Store, "A")
       IN  datFiles' = [datFiles EXCEPT
                          !.var = <<VarFile(saveUniqueCode, saveVersion,
                                            sel.globals, sel.arrays)>>]
    /\ globals' = MapPut(globals, "RESULT", IntV(1))
    /\ storeHist' = [Stepped(storeHist) EXCEPT !.last = <<>>]
    /\ UNCHANGED <<background, phase, stack, outputs, gArrays, gRefs, characters, saved>>

\* LOADVAR "f"
execLoadVar ==
    /\ CanStep
    /\ IF datFiles.var = <<>>
       THEN /\ globals' = MapPut(globals, "RESULT", IntV(0))
            /\ UNCHANGED <<phase, gArrays, stack, gRefs>>
       ELSE LET r == loadVarFromData(Store, datFiles.var[1])
            IN  IF r.err # ""
                THEN /\ phase' = "failed"
                     /\ UNCHANGED <<globals, gArrays, stack, gRefs>>
                ELSE /\ StoreBecomes([r.d EXCEPT !.globals = MapPut(@, "RESULT", IntV(1))])
                     /\ phase' = phase
    /\ storeHist' = [Stepped(storeHist) EXCEPT !.last = <<>>]
    /\ UNCHANGED <<background, outputs, characters, saved, datFiles>>

\* SAVECHARA "f", "m", 0 with the binary format chosen
execSaveChara ==
    /\ CanStep
    /\ datFiles' = [datFiles EXCEPT
                      !.chara = <<CharaFile(saveUniqueCode, saveVersion,
                                            IF characters = <<>> THEN <<>>
                                            ELSE <<characters[1]>>)>>]
    /\ globals' = MapPut(globals, "RESULT", IntV(1))
    /\ storeHist' = [Stepped(storeHist) EXCEPT !.last = <<>>]
    /\ UNCHANGED <<background, phase, stack, outputs, gArrays, gRefs, characters, saved>>

\* LOADCHARA "f"
execLoadChara ==
    /\ CanStep
    /\ IF datFiles.chara = <<>>
       THEN /\ globals' = MapPut(globals, "RESULT", IntV(0))
            /\ UNCHANGED <<phase, characters>>
       ELSE LET r == loadCharaFromData(characters, datFiles.chara[1])
            IN  /\ Len(r.chars) <= MaxCharas
                /\ IF r.err # ""
                   THEN /\ phase' = "failed"
                        /\ UNCHANGED <<globals, characters>>
                   ELSE /\ characters' = r.chars
                        /\ globals' = MapPut(refreshCharacterGlobals(globals, r.chars),
                                             "RESULT", IntV(1))
                        /\ phase' = phase
    /\ storeHist' = [Stepped(storeHist) EXCEPT !.last = <<>>]
    /\ UNCHANGED <<background, stack, outputs, gArrays, gRefs, saved, datFiles>>

\* The host puts into the save directory the binary files of another game or
\* of another version of this game
OtherGameSaves ==
    /\ CanStep
    /\ \E id \in OtherIdentities :
         datFiles' = [var |-> <<VarFile(id[1], id[2], MapPut(EmptyMap, "A", IntV(9)),
                                       EmptyMap)>>,
                      chara |-> <<CharaFile(id[1], id[2], <<5>>)>>]
    /\ storeHist' = [Stepped(storeHist) EXCEPT !.last = <<>>]
    /\ UNCHANGED <<background, phase, stack, globals, outputs, gArrays, gRefs,
                   characters, saved>>

NextStore ==
    \/ StoreAssignValue
    \/ StoreAssignRef
    \/ StorePrintV
    \/ StoreCall
    \/ StoreReturn
    \/ AddChara
    \/ DelChara
    \/ DelAllChara
    \/ execResetGlobal
    \/ execResetData
    \/ SaveGlobal
    \/ LoadGlobal
    \/ execSaveVar
    \/ execLoadVar
    \/ execSaveChara
    \/ execLoadChara
    \/ OtherGameSaves

SpecStore == InitStore /\ [][NextStore]_vars

\* Every array of the VM: the global ones and those of each frame
AllArrays ==
    {gArrays[n] : n \in DOMAIN gArrays}
        \cup UNION {{stack[i].lArrays[n] : n \in DOMAIN stack[i].lArrays} :
                      i \in 1..Len(stack)}

KeepsKind(a) ==
    \A i \in DOMAIN a.Data : a.Data[i].kind = IF a.IsString THEN "str" ELSE "int"

\* C15: after any sequence of assignments, calls that bind arguments to
\* indexed targets, and loads, every value stored in an array has the element
\* kind of the array: an int array holds only Int values, a string array only
\* Str values.
C15_ArraysKeepKind == \A a \in AllArrays : KeepsKind(a)

\* C16: after any sequence of roster commands, resets, loads and plain
\* assignments, the global CHARANUM equals the number of characters in the
\* roster.
C16_CharanumIsRosterSize == getVarOf(Store, "CHARANUM") = IntV(Len(characters))

\* The last statement read or wrote under a REF-declared name that was bound
\* to a variable which is not itself REF-declared
UnderAlias(kind) ==
    /\ storeHist.last # <<>>
    /\ storeHist.last[1].kind = kind
    /\ storeHist.last[1].ref.Index = <<>>
    /\ storeHist.last[1].ref.Name \in DOMAIN storeHist.bound
    /\ ~isRefDeclared(storeHist.bound[storeHist.last[1].ref.Name].Name)

\* The read returned what the target held, and the write left the store that
\* the same write to the target leaves
Redirected ==
    LET a == storeHist.last[1]
        target == storeHist.bound[a.ref.Name]
    IN  /\ a.kind = "read" =>
              /\ a.v = getVarRef(a.before, target).v
              /\ Store = getVarRef(a.before, target).d
        /\ a.kind = "write" => Store = setVarRef(a.before, target, a.v).d

C18_AliasResolutionTerminates ==
    /\ phase # "crashed"
    /\ \A n \in DOMAIN gRefs :
         /\ getVarRef(Store, Ref(n, <<>>)).ok
         /\ setVarRef(Store, Ref(n, <<>>), IntV(0)).ok

ByteOrder == <<"-">> \o Digits \o <<"a">>

ByteRank(c) == CHOOSE i \in 1..Len(ByteOrder) : ByteOrder[i] = c

\* a < b for two strings compared byte by byte
RECURSIVE LexLess(_, _)
LexLess(a, b) ==
    IF b = <<>> THEN FALSE
    ELSE IF a = <<>> THEN TRUE
    ELSE IF Head(a) = Head(b) THEN LexLess(Tail(a), Tail(b))
    ELSE ByteRank(Head(a)) < ByteRank(Head(b))

\* The operator applied to the two operands as strings
LexCompare(op, a, b) ==
    CASE op = "==" -> a = b
      [] op = "!=" -> a # b
      [] op = "<"  -> LexLess(a, b)
      [] op = "<=" -> LexLess(a, b) \/ a = b
      [] op = ">"  -> LexLess(b, a)
      [] op = ">=" -> LexLess(b, a) \/ a = b

\* The statement X = l op r with one Int and one Str operand has just run
ComparedMixed ==
    /\ phase = "ret"
    /\ ctl # <<>>
    /\ Top.fn = "runThunk"
    /\ Top.pc < Len(Top.thunk.Statements)
    /\ CurStmt.op = "AssignStmt"
    /\ CurStmt.Arg \in CompareOps
    /\ CurStmt.Exprs[1].v.kind # CurStmt.Exprs[2].v.kind

\* C20: each of ==, !=, <, <=, >, >= applied to one Int operand and one Str
\* operand compares the two operands lexicographically as strings.
C20_MixedCompareIsLexical ==
    ComparedMixed =>
        evalExpr(VarRef(CurStmt.Name)) =
            BoolV(LexCompare(CurStmt.Arg, String(CurStmt.Exprs[1].v),
                             String(CurStmt.Exprs[2].v)))

\* The same for == and != alone
MixedEqualityIsLexical ==
    ComparedMixed /\ CurStmt.Arg \in {"==", "!="} =>
        evalExpr(VarRef(CurStmt.Name)) =
            BoolV(LexCompare(CurStmt.Arg, String(CurStmt.Exprs[1].v),
                             String(CurStmt.Exprs[2].v)))

\* The file LOADVAR or LOADCHARA is about to read carries another code or version
Mismatched(file) ==
    file # <<>> /\ (file[1].unique # saveUniqueCode \/ file[1].version # saveVersion)

\* C21: LOADVAR or LOADCHARA of a binary save whose unique code or version
\* differs from the program's is rejected with an error, and the rejected load
\* changes no variable, no array and no character.
C21_MismatchedLoadRejected ==
    [][((execLoadVar /\ Mismatched(datFiles.var))
            \/ (execLoadChara /\ Mismatched(datFiles.chara)))
        => /\ phase' = "failed"
           /\ UNCHANGED <<globals, gArrays, gRefs, stack, characters>>]_vars

\* A load has been rejected in a run that had assigned a variable or added a
\* character before
C21_LoadWasRejected ==
    /\ phase = "failed"
    /\ Mismatched(datFiles.var)
    /\ "A" \in DOMAIN globals \/ "A" \in DOMAIN gArrays \/ characters # <<>>

\* The declarations of a function name, in the order of the files
DeclsOf(name) == SelectSeq(files, LAMBDA f : f.Name = name)

\* The statements of the first k declarations, one after the other
RECURSIVE BodiesUpTo(_, _)
BodiesUpTo(decls, k) ==
    IF k = 0 THEN <<>> ELSE BodiesUpTo(decls, k - 1) \o decls[k].Body.Statements

\* Names declared more than once that are not event functions
DeclaredAgain ==
    {files[i].Name : i \in 1..Len(files)} \cap
        {n \in DOMAIN program.Functions : ~isEventFunction(n) /\ Len(DeclsOf(n)) > 1}

\* C22: a function declared more than once runs the bodies in declaration
\* order as one body, and every label of every declaration resolves to the
\* statement it preceded in its own declaration, shifted by the length of the
\* earlier bodies.
C22_MergedLabelsShifted ==
    \A name \in DeclaredAgain :
        LET decls == DeclsOf(name)
            fn    == program.Functions[name]
        IN  /\ fn.Body.Statements = BodiesUpTo(decls, Len(decls))
            /\ \A k \in 1..Len(decls) :
                 \A l \in DOMAIN decls[k].Body.LabelMap :
                    /\ l \in DOMAIN fn.Body.LabelMap
                    /\ fn.Body.LabelMap[l] =
                         decls[k].Body.LabelMap[l] + Len(BodiesUpTo(decls, k - 1))

\* The same for the files whose declarations share no label name
MergedDistinctLabelsShifted ==
    (\A name \in DeclaredAgain :
        \A j, k \in 1..Len(DeclsOf(name)) :
           j # k => DOMAIN DeclsOf(name)[j].Body.LabelMap
                      \cap DOMAIN DeclsOf(name)[k].Body.LabelMap = {})
    => C22_MergedLabelsShifted

\* The commands that ask for input through resolveInput
InputCommands == {"INPUT", "TINPUT", "WAIT"}

\* C23: the count of statements executed since the last input boundary grows
\* by one with every executed statement and is reset to zero at every input
\* boundary.
C23_StepsCountedBetweenInputs ==
    [][AtStatement =>
         IF AtCommand(InputCommands)
         THEN execSteps' = 0
         ELSE execSteps' = execSteps + 1]_vars

\* The part of it that the code keeps: an input boundary leaves the count at zero
StepsResetAtInput ==
    [][AtCommand(InputCommands) => execSteps' = 0]_vars

----------------------------------------------------------------------------
(* Template expansion: PRINTFORM's expandFormTemplate *)

MaxPasses == 8         \* the passes of one expandFormTemplate call
MaxDepth == 4          \* the nested calls the Go stack holds before it overflows

\* unicode.IsSpace, for the characters of the templates below
IsSpace(c) == c = " "

\* parser.ParseExpr for the expressions of the templates below: an integer
\* literal, a name of one letter, or a text with a character the tokenizer
\* rejects
ParseExpr(raw) ==
    LET t == TrimSpace(raw)
    IN  IF t # <<>> /\ \A i \in 1..Len(t) : IsDigit(t[i])
        THEN [ok |-> TRUE, e |-> Lit(IntV(DigitsToInt(t)))]
        ELSE IF Len(t) = 1 /\ t[1] \in {"S"}
        THEN [ok |-> TRUE, e |-> VarRef(t[1])]
        ELSE [ok |-> FALSE, e |-> Lit(IntV(0))]

\* parseLooseExpr: what does not parse is a string literal of the raw text
parseLooseExpr(raw) ==
    LET t == TrimSpace(raw)
    IN  IF t = <<>> THEN Lit(StrV(<<>>))
        ELSE IF ParseExpr(t).ok THEN ParseExpr(t).e
        ELSE Lit(StrV(t))

\* evalExpr of a literal or of a variable of the store
evalFormExpr(e) == IF e.e = "lit" THEN e.v ELSE getVarOf(Store, e.name)

\* evalLooseExpr
evalLooseExpr(raw) == evalFormExpr(parseLooseExpr(raw))

\* The first position from start on that holds c, 0 if none
RECURSIVE IndexFrom(_, _, _)
IndexFrom(t, start, c) ==
    IF start > Len(t) THEN 0
    ELSE IF t[start] = c THEN start
    ELSE IndexFrom(t, start + 1, c)

\* findPercentPlaceholderEnd, for templates without string literals
findPercentPlaceholderEnd(t, start) == IndexFrom(t, start, "%")

\* findBracePlaceholderEnd, for templates without string literals
RECURSIVE findBracePlaceholderEnd(_, _, _)
findBracePlaceholderEnd(t, start, depth) ==
    IF start > Len(t) THEN 0
    ELSE IF t[start] = "{" THEN findBracePlaceholderEnd(t, start + 1, depth + 1)
    ELSE IF t[start] = "}"
    THEN IF depth = 1 THEN start ELSE findBracePlaceholderEnd(t, start + 1, depth - 1)
    ELSE findBracePlaceholderEnd(t, start + 1, depth)

\* findAtPlaceholderEnd: an @ closes the placeholder only right after the
\* opening @ or after white space
RECURSIVE findAtPlaceholderEnd(_, _, _)
findAtPlaceholderEnd(t, start, i) ==
    IF i > Len(t) THEN 0
    ELSE IF t[i] = "@" /\ (i = start \/ IsSpace(t[i - 1])) THEN i
    ELSE findAtPlaceholderEnd(t, start, i + 1)

\* evalPercentPlaceholderExpr, evalBracePlaceholderExpr: the text of the
\* expression's value, or not handled
evalPlaceholderExpr(raw) ==
    LET p == ParseExpr(raw)
    IN  [ok |-> p.ok, text |-> IF p.ok THEN String(evalFormExpr(p.e)) ELSE <<>>]

\* evalPercentPlaceholders, with b the strings.Builder and rest the text
\* from position i on
RECURSIVE evalPercentFrom(_, _)
evalPercentFrom(b, rest) ==
    IF rest = <<>> THEN b
    ELSE IF Head(rest) # "%" THEN evalPercentFrom(Append(b, Head(rest)), Tail(rest))
    ELSE LET j == findPercentPlaceholderEnd(rest, 2)
             exprRaw == TrimSpace(SubSeq(rest, 2, j - 1))
             after == SubSeq(rest, j + 1, Len(rest))
             r == evalPlaceholderExpr(exprRaw)
         IN  IF j = 0 THEN b \o rest
             ELSE IF exprRaw = <<>> THEN evalPercentFrom(b \o <<"%", "%">>, after)
             ELSE IF ~r.ok THEN evalPercentFrom(b \o SubSeq(rest, 1, j), after)
             ELSE evalPercentFrom(b \o r.text, after)

evalPercentPlaceholders(tmpl) == evalPercentFrom(<<>>, tmpl)

\* evalBracePlaceholders
RECURSIVE evalBraceFrom(_, _)
evalBraceFrom(b, rest) ==
    IF rest = <<>> THEN b
    ELSE IF Head(rest) # "{" THEN evalBraceFrom(Append(b, Head(rest)), Tail(rest))
    ELSE LET j == findBracePlaceholderEnd(rest, 2, 1)
             exprRaw == TrimSpace(SubSeq(rest, 2, j - 1))
             after == SubSeq(rest, j + 1, Len(rest))
             r == evalPlaceholderExpr(exprRaw)
         IN  IF j = 0 THEN b \o rest
             ELSE IF exprRaw = <<>> THEN evalBraceFrom(b \o <<"{", "}">>, after)
             ELSE IF ~r.ok THEN evalBraceFrom(b \o SubSeq(rest, 1, j), after)
             ELSE evalBraceFrom(b \o r.text, after)

evalBracePlaceholders(tmpl) == evalBraceFrom(<<>>, tmpl)

\* splitTopLevelTernary, for texts without parentheses and string literals:
\* the first ? and the first # after it
splitTopLevelTernary(raw) ==
    LET q == IndexFrom(raw, 1, "?")
        h == IF q = 0 THEN 0 ELSE IndexFrom(raw, q + 1, "#")
    IN  IF h = 0 THEN [ok |-> FALSE, cond |-> <<>>, onTrue |-> <<>>, onFalse |-> <<>>]
        ELSE [ok |-> TRUE, cond |-> TrimSpace(SubSeq(raw, 1, q - 1)),
              onTrue |-> TrimSpace(SubSeq(raw, q + 1, h - 1)),
              onFalse |-> TrimSpace(SubSeq(raw, h + 1, Len(raw)))]

\* unwrapFullPercent
unwrapFullPercent(raw) ==
    LET t == TrimSpace(raw)
    IN  IF Len(t) >= 2 /\ t[1] = "%" /\ findPercentPlaceholderEnd(t, 2) = Len(t)
        THEN [ok |-> TRUE, inner |-> TrimSpace(SubSeq(t, 2, Len(t) - 1))]
        ELSE [ok |-> FALSE, inner |-> <<>>]

\* evalAtBranch up to its call of expandFormTemplate: the text of the branch,
\* or the call of expandFormTemplate(raw) it makes
evalAtBranch(branch) ==
    LET raw == TrimSpace(branch)
    IN  IF raw = <<>> THEN [call |-> FALSE, text |-> <<>>]
        ELSE IF unwrapFullPercent(raw).ok
        THEN [call |-> FALSE, text |-> String(evalLooseExpr(unwrapFullPercent(raw).inner))]
        ELSE IF ParseExpr(raw).ok
        THEN [call |-> FALSE, text |-> String(evalFormExpr(ParseExpr(raw).e))]
        ELSE [call |-> TRUE, text |-> raw]

\* evalAtPlaceholderExpr up to the call of expandFormTemplate in evalAtBranch
evalAtPlaceholderExpr(raw) ==
    LET p == ParseExpr(raw)
        t == splitTopLevelTernary(raw)
        branch == IF Truthy(evalLooseExpr(t.cond)) THEN t.onTrue ELSE t.onFalse
    IN  IF p.ok
        THEN [handled |-> TRUE, call |-> FALSE, text |-> String(evalFormExpr(p.e))]
        ELSE IF ~t.ok THEN [handled |-> FALSE, call |-> FALSE, text |-> <<>>]
        ELSE [handled |-> TRUE, call |-> evalAtBranch(branch).call,
              text |-> evalAtBranch(branch).text]

\* The loop of evalAtPlaceholders from the builder b and the text rest on, up
\* to its end or to the next call of expandFormTemplate: the builder, and for
\* a call the template passed and the text after the placeholder
RECURSIVE evalAtFrom(_, _)
evalAtFrom(b, rest) ==
    IF rest = <<>> THEN [call |-> FALSE, b |-> b, rest |-> <<>>, tmpl |-> <<>>]
    ELSE IF Head(rest) # "@" THEN evalAtFrom(Append(b, Head(rest)), Tail(rest))
    ELSE LET j == findAtPlaceholderEnd(rest, 2, 2)
             exprRaw == TrimSpace(SubSeq(rest, 2, j - 1))
             after == SubSeq(rest, j + 1, Len(rest))
             r == evalAtPlaceholderExpr(exprRaw)
         IN  IF j = 0 THEN evalAtFrom(Append(b, "@"), Tail(rest))
             ELSE IF exprRaw = <<>> THEN evalAtFrom(b \o SubSeq(rest, 1, j), after)
             ELSE IF ~r.handled THEN evalAtFrom(b \o SubSeq(rest, 1, j), after)
             ELSE IF r.call THEN [call |-> TRUE, b |-> b, rest |-> after, tmpl |-> r.text]
             ELSE evalAtFrom(b \o r.text, after)

\* An activation of expandFormTemplate(tmpl): out, prev and i of its loop, and
\* in its call of evalAtPlaceholders the builder and the text not yet read
Expansion(tmpl) ==
    [out |-> tmpl, prev |-> <<>>, i |-> 0, at |-> "loop", b |-> <<>>, rest |-> <<>>]

\* Values of the string variable S: plain text, its own placeholder, text that
\* grows by its own placeholder, and @cond?t#f@ branches that hold it
FormValues ==
    { <<".">>,
      <<"%", "S", "%">>,
      <<".", "%", "S", "%">>,
      <<"@", "1", "?", ".", "%", "S", "%", "#", " ", "@">>,
      <<"@", "0", "?", ".", "%", "S", "%", "#", ".", " ", "@">> }

\* Arguments of PRINTFORM
FormTemplates ==
    { <<"%", "S", "%">>,
      <<".", "{", "S", "}">>,
      <<"@", "1", "?", "%", "S", "%", "#", " ", "@">>,
      <<"@", "1", "?", ".", "#", " ", "@", "{", "}", "%", "%">> }

InitForm ==
    /\ files = <<>>
    /\ program = ParseProgram(files)
    /\ hostInputs = <<>>
    /\ phase = "exec"
    /\ current = ""
    /\ stack = <<>>
    /\ ctl = <<>>
    /\ res = resultNone
    /\ execThunk = EmptyThunk
    /\ execPC = -1
    /\ globals = initDefines.globals
    /\ outputs = <<>>
    /\ hookOutputs = <<>>
    /\ input = defaultInputState
    /\ inputProvider = FALSE
    /\ runResult = [outputs |-> <<>>, err |-> ""]
    /\ hist = NoHist
    /\ vmRuns = <<>>
    /\ cmds = <<>>
    /\ model = newModel
    /\ \E v \in FormValues :
         gArrays = [initDefines.gArrays EXCEPT !["S"] = ArraySet(@, 0, StrV(v))]
    /\ gRefs = EmptyMap
    /\ characters = <<>>
    /\ saved = <<>>
    /\ storeHist = NoStoreHist
    /\ datFiles = NoDatFiles
    /\ execSteps = 0
    /\ \E tmpl \in FormTemplates : form = [NoForm EXCEPT !.tmpl = tmpl]
    /\ array = NoArray
    /\ arrayHist = NoArrayHist

\* What the expansion leaves alone
formRest == <<files, program, hostInputs, phase, current, stack, ctl, res, execThunk,
              execPC, globals, outputs, hookOutputs, input, inputProvider, runResult,
              hist, vmRuns, cmds, model, datastore, execSteps, array, arrayHist>>

FormTop == form.stack[Len(form.stack)]

\* evalPrintForm(arg): the call of expandFormTemplate
evalPrintForm ==
    /\ form.phase = "idle"
    /\ form' = [form EXCEPT !.phase = "run", !.stack = <<Expansion(form.tmpl)>>]
    /\ UNCHANGED formRest

\* One pass of expandFormTemplate's loop up to its call of evalAtPlaceholders
expandFormTemplate ==
    /\ form.phase = "run"
    /\ FormTop.at = "loop"
    /\ FormTop.i < MaxPasses
    /\ form' = [form EXCEPT !.stack[Len(form.stack)] =
                  [@ EXCEPT !.prev = FormTop.out, !.at = "at", !.b = <<>>,
                            !.rest = evalBracePlaceholders(
                                         evalPercentPlaceholders(FormTop.out))]]
    /\ UNCHANGED formRest

\* evalAtPlaceholders up to its end, where the pass ends, or up to the call
\* of expandFormTemplate in evalAtBranch, which the Go stack may not hold
evalAtPlaceholders ==
    /\ form.phase = "run"
    /\ FormTop.at = "at"
    /\ LET r == evalAtFrom(FormTop.b, FormTop.rest)
           n == Len(form.stack)
       IN  IF r.call
           THEN IF n >= MaxDepth
                THEN form' = [form EXCEPT !.phase = "overflow"]
                ELSE form' = [form EXCEPT
                                !.stack = Append([form.stack EXCEPT
                                                    ![n].b = r.b, ![n].rest = r.rest],
                                                 Expansion(r.tmpl))]
           ELSE form' = [form EXCEPT !.stack[n] =
                           [@ EXCEPT !.out = r.b, !.b = <<>>, !.rest = <<>>,
                                     !.at = IF r.b = FormTop.prev THEN "break" ELSE "loop",
                                     !.i = IF r.b = FormTop.prev THEN @ ELSE @ + 1]]
    /\ UNCHANGED formRest

\* expandFormTemplate returns out: to evalAtBranch, whose text goes into the
\* builder of the caller's evalAtPlaceholders, or to evalPrintForm
expandFormTemplateReturn ==
    /\ form.phase = "run"
    /\ FormTop.at = "break" \/ (FormTop.at = "loop" /\ FormTop.i >= MaxPasses)
    /\ LET n == Len(form.stack)
       IN  IF n = 1
           THEN form' = [form EXCEPT !.phase = "done", !.stack = <<>>,
                                     !.result = FormTop.out]
           ELSE form' = [form EXCEPT
                           !.stack = [SubSeq(form.stack, 1, n - 1) EXCEPT
                                        ![n - 1].b = @ \o FormTop.out]]
    /\ UNCHANGED formRest

NextForm ==
    \/ evalPrintForm
    \/ expandFormTemplate
    \/ evalAtPlaceholders
    \/ expandFormTemplateReturn

SpecForm == InitForm /\ [][NextForm]_vars

\* The value of S holds an @cond?t#f@ branch that is taken and holds S again
BranchLeadsBack ==
    getVarOf(Store, "S").s = <<"@", "1", "?", ".", "%", "S", "%", "#", " ", "@">>

\* C24: template expansion terminates for every template and every variable
\* state, each call after at most 8 passes: no expansion nests its calls
\* until the stack is used up.
C24_ExpansionTerminates ==
    /\ form.phase # "overflow"
    /\ \A k \in 1..Len(form.stack) : form.stack[k].i <= MaxPasses

\* The same for the values of S whose branches do not lead back to S
ExpansionTerminatesOtherwise == BranchLeadsBack \/ C24_ExpansionTerminates

\* An expansion that the cap of 8 passes ended
CappedExpansion == form.phase = "done" /\ Len(form.result) > 8

\* The callFunction activations on the Go call stack, outermost first
Calls == SelectSeq(ctl, LAMBDA a : a.fn = "callFunction")

\* C25: the frame stack holds exactly one frame for every call that has been
\* entered and has not finished, in the order of the calls, however the calls
\* before finished; so after a call the active frame is the caller's, and the
\* stack is empty when Run has returned.
C25_OneFramePerCall ==
    /\ Len(stack) = Len(Calls)
    /\ \A k \in 1..Len(Calls) :
          k <= Len(stack) => stack[k].fn = program.Functions[Calls[k].name]
    /\ phase = "done" => stack = <<>>

\* A call of @A out of @TITLE has finished by a GOTO that propagates or by an
\* error, and the caller goes on in its own frame
C25_BackInCallersFrame ==
    /\ phase = "ret"
    /\ ctl # <<>> /\ Top.fn = "runThunk"
    /\ Top.pc < Len(Top.thunk.Statements) /\ CurStmt.op = "CallStmt"
    /\ res.err # "" \/ res.kind = "resultGoto"
    /\ Len(stack) = 1 /\ stack[1].fn.Name = "TITLE"

\* C26: a TRYGOTO transfers control to its label exactly when a plain GOTO at
\* the same place would be taken by a runThunk of this function; in every
\* other case it raises no error and execution falls through.
C26_TryGotoAgreesWithGoto ==
    AtReturnOf({"TRYGOTO"}) =>
        /\ res.err = ""
        /\ IF GotoWouldResolve(CurStmt.Arg)
           THEN res.kind = "resultGoto" /\ res.label = CurStmt.Arg
           ELSE res.kind = "resultNone"

\* The same for a TRYGOTO among the top-level statements of its function
TopLevelTryGotoAgreesWithGoto ==
    AtReturnOf({"TRYGOTO"}) =>
        (Top.thunk # currentFrame.fn.Body \/ C26_TryGotoAgreesWithGoto)

\* A loop statement has the result of a run of its body
AtLoopResult ==
    /\ phase = "ret"
    /\ ctl # <<>>
    /\ Top.fn \in {"RepeatStmt", "ForStmt"}

\* C27: loop control never crosses a function-call boundary: the BREAK that a
\* loop takes as the result of its body was executed in the frame of the loop,
\* not in a function called from the body.
C27_BreakStaysInFrame ==
    (AtLoopResult /\ res.err = "" /\ res.kind \in {"resultBreak", "resultContinue"})
        => hist.breakDepth = Len(stack)

\* C28: a timeout tick answers only the timed prompt it was scheduled for: the
\* timeout response an interpreter is about to receive was sent by the tick
\* of the prompt it is waiting at, not by a tick of an earlier prompt or of a
\* prompt of a run before a restart.
C28_TickAnswersItsPrompt ==
    \A v \in 1..Len(vmRuns) :
        (vmRuns[v].resp # <<>> /\ vmRuns[v].resp[1].timeout)
            => /\ vmRuns[v].resp[1].tick.vm = v
               /\ vmRuns[v].resp[1].tick.at = vmRuns[v].pc

\* The same while the r key has not been pressed
TickAnswersItsPromptInOneRun == Len(vmRuns) > 1 \/ C28_TickAnswersItsPrompt

\* The front-end with its scheduling: the Go scheduler runs every goroutine
\* that can take a step (the interpreters, the functions of the commands),
\* timers fire, and bubbletea hands every message to Update. Nothing is
\* assumed of the user's keys.
SpecFrontendLive ==
    /\ InitFrontend
    /\ [][NextFrontend]_vars
    /\ WF_vars(StartVMRuns)
    /\ WF_vars(OutputHook)
    /\ WF_vars(InputProviderAsks)
    /\ WF_vars(InputProviderReturns)
    /\ WF_vars(RunVMDone)
    /\ WF_vars(WaitReceives)
    /\ WF_vars(WaitTimesOut)
    /\ WF_vars(WaitClosed)
    /\ WF_vars(UpdateStarted)
    /\ WF_vars(UpdateOutput)
    /\ WF_vars(UpdatePoll)
    /\ WF_vars(UpdatePrompt)
    /\ WF_vars(TimeoutFires)
    /\ WF_vars(UpdateTimeout)
    /\ WF_vars(UpdateDone)

\* The interpreter of run v waits for the response to a prompt
Asked(v) == v <= Len(vmRuns) /\ vmRuns[v].asked

\* The prompt of run v is the one the UI shows
AtUI(v) == model.pending # <<>> /\ model.pending[1].resp = v

\* A response is in the response channel of run v
Responded(v) == v <= Len(vmRuns) /\ vmRuns[v].resp # <<>>

\* C29: every prompt an interpreter goroutine issues eventually reaches the
\* UI, and once it is answered or its timeout has fired the goroutine
\* receives the response and resumes.
C29_PromptsReachUI ==
    \A v \in 1..MaxStarts :
        /\ Asked(v) ~> (AtUI(v) \/ Responded(v) \/ ~Asked(v))
        /\ Responded(v) ~> ~Asked(v)

\* The part of it that does not depend on the UI: a response sent is received
ResponsesAreReceived == \A v \in 1..MaxStarts : Responded(v) ~> ~Asked(v)

----------------------------------------------------------------------------
(* ArrayVar: the dimension sizes and the cells of one array *)

MaxIndex == 2          \* largest subscript a script uses
MaxRank == 2           \* most subscripts of one reference
MaxArrayOps == 2       \* most reads and writes of the array in one run

\* newArrayVar(isString, isDynamic, dims): no dimension sizes means one
\* dimension of size 1
newArrayVarDims(isString, isDynamic, dims) ==
    [IsString |-> isString, IsDynamic |-> isDynamic,
     Dims |-> IF dims = <<>> THEN <<1>> ELSE dims, Data |-> EmptyMap]

\* The loop of key over the subscripts from position i: whether it fails, and
\* the array it leaves. A key is written as the sequence of the subscripts,
\* which the decimal numbers joined with ":" determine and are determined by.
RECURSIVE keyLoop(_, _, _)
keyLoop(a, index, i) ==
    IF i > Len(index) THEN [err |-> FALSE, a |-> a]
    ELSE LET v == index[i]
         IN  IF v < 0 THEN [err |-> TRUE, a |-> a]
             ELSE IF a.IsDynamic
             THEN LET grown == IF i > Len(a.Dims) THEN Append(a.Dims, v + 1)
                               ELSE a.Dims
                      dims == IF v >= grown[i] THEN [grown EXCEPT ![i] = v + 1]
                              ELSE grown
                  IN  keyLoop([a EXCEPT !.Dims = dims], index, i + 1)
             ELSE IF i <= Len(a.Dims) /\ v >= a.Dims[i]
             THEN [err |-> TRUE, a |-> a]
             ELSE keyLoop(a, index, i + 1)

\* a.key(index): the key of the cell, whether it fails, and the array it leaves
key(a, index) ==
    IF index = <<>> THEN [k |-> <<0>>, err |-> FALSE, a |-> a]
    ELSE IF ~a.IsDynamic /\ Len(index) > Len(a.Dims)
    THEN [k |-> <<>>, err |-> TRUE, a |-> a]
    ELSE LET more == IF a.IsDynamic /\ Len(index) > Len(a.Dims)
                     THEN [i \in 1..(Len(index) - Len(a.Dims)) |->
                              index[Len(a.Dims) + i] + 1]
                     ELSE <<>>
             r == keyLoop([a EXCEPT !.Dims = @ \o more], index, 1)
         IN  [k |-> IF r.err THEN <<>> ELSE index, err |-> r.err, a |-> r.a]

\* a.Get(index): the value, whether it fails, and the array it leaves
Get(a, index) ==
    LET r == key(a, index)
    IN  [v |-> IF r.err THEN IntV(0)
               ELSE IF r.k \in DOMAIN r.a.Data THEN r.a.Data[r.k]
               ELSE defaultValue(a),
         err |-> r.err, a |-> r.a]

\* a.Set(index, v): whether it fails, and the array it leaves
Set(a, index, v) ==
    LET r == key(a, index)
    IN  [err |-> r.err,
         a |-> IF r.err THEN r.a
               ELSE [r.a EXCEPT !.Data = MapPut(@, r.k, IF a.IsString THEN StrV(String(v))
                                                        ELSE IntV(Int64(v)))]]

\* The subscripts of a reference: none, or up to MaxRank of them, negative
\* ones included
ArrayIndexes == UNION {[1..n -> -1..MaxIndex] : n \in 0..MaxRank}

\* The dimension sizes of the declarations: #DIM A, 2 and #DIM B, 2, 2, and
\* the array of a name that is not declared
DeclDims == {<<>>, <<2>>, <<2, 2>>}

\* initDefines and callFunction: the array of a declaration, dynamic or not
InitArray ==
    /\ files = <<>>
    /\ program = ParseProgram(files)
    /\ hostInputs = <<>>
    /\ phase = "exec"
    /\ current = ""
    /\ stack = <<>>
    /\ ctl = <<>>
    /\ res = resultNone
    /\ execThunk = EmptyThunk
    /\ execPC = -1
    /\ globals = initDefines.globals
    /\ outputs = <<>>
    /\ hookOutputs = <<>>
    /\ input = defaultInputState
    /\ inputProvider = FALSE
    /\ runResult = [outputs |-> <<>>, err |-> ""]
    /\ hist = NoHist
    /\ vmRuns = <<>>
    /\ cmds = <<>>
    /\ model = newModel
    /\ gArrays = initDefines.gArrays
    /\ gRefs = EmptyMap
    /\ characters = <<>>
    /\ saved = <<>>
    /\ storeHist = NoStoreHist
    /\ datFiles = NoDatFiles
    /\ execSteps = 0
    /\ form = NoForm
    /\ \E isString \in BOOLEAN, isDynamic \in BOOLEAN, dims \in DeclDims :
         array = newArrayVarDims(isString, isDynamic, dims)
    /\ arrayHist = NoArrayHist

\* What the reads and writes of the array leave alone
arrayRest == <<files, program, hostInputs, phase, current, stack, ctl, res, execThunk,
               execPC, globals, outputs, hookOutputs, input, inputProvider, runResult,
               hist, vmRuns, cmds, model, datastore, execSteps, form>>

\* A script reads a cell: getVarRef calls arr.Get(index)
ArrayVarGet ==
    /\ arrayHist.ops < MaxArrayOps
    /\ \E index \in ArrayIndexes :
         LET r == Get(array, index)
         IN  /\ array' = r.a
             /\ arrayHist' = [ops |-> arrayHist.ops + 1, op |-> "Get", index |-> index,
                              err |-> r.err, before |-> array]
    /\ UNCHANGED arrayRest

\* A script writes a cell: setVarRef calls arr.Set(index, v)
ArrayVarSet ==
    /\ arrayHist.ops < MaxArrayOps
    /\ \E index \in ArrayIndexes, v \in {IntV(7), StrV(<<"a">>)} :
         LET r == Set(array, index, v)
         IN  /\ array' = r.a
             /\ arrayHist' = [ops |-> arrayHist.ops + 1, op |-> "Set", index |-> index,
                              err |-> r.err, before |-> array]
    /\ UNCHANGED arrayRest

NextArray ==
    \/ ArrayVarGet
    \/ ArrayVarSet

SpecArray == InitArray /\ [][NextArray]_vars

\* C30: reading an array never changes it: after Get, whether it succeeded
\* or failed and whether the array is dynamic or not, the dimension sizes and
\* the cells are what they were.
C30_GetLeavesArray ==
    arrayHist.op = "Get" =>
        /\ array.Dims = arrayHist.before.Dims
        /\ array.Data = arrayHist.before.Data

\* What holds of it: Get changes no cell, and changes nothing of an array
\* that is not dynamic
GetLeavesCellsAndFixedArrays ==
    arrayHist.op = "Get" =>
        /\ array.Data = arrayHist.before.Data
        /\ ~array.IsDynamic => array = arrayHist.before

====
